---- MODULE Spec2Model ----
(***************************************************************************)
(* Model of the WebAccess backend of zen-fs/dom:                           *)
(*   - the File System Access ponyfill (Sink, WritableFileStream,          *)
(*     FileHandle, DirectoryHandle), and                                   *)
(*   - WebAccessFS, the path-based adapter with its handle cache           *)
(*     (_handles) and its metadata index.                                  *)
(* Bytes are small naturals, names and paths are sequences of characters,  *)
(* handles are positions in the sequence heap (the objects ever created).  *)
(* Modification times are not modelled.                                    *)
(***************************************************************************)
EXTENDS Integers, Sequences, FiniteSets, TLC

\* ------------------------------------------------------------------ bounds
\* largest numeric argument of seek / truncate / write position / offset
MaxPos == 2
\* longest payload handed to a write
MaxPayload == 1
\* write sessions opened in one behaviour
MaxSessions == 1
\* handle objects allocated in one behaviour, the root included
MaxHandles == 5
\* stream commands issued in one behaviour
MaxCmds == 2
\* calls on directory handles, or adapter operations, issued in one behaviour
MaxOps == 3
\* deepest path handed to the adapter
MaxDepth == 2

\* longest byte sequence handed to the key-value store
MaxBytes == 2
\* the sessions open on one file at a time, where sessions interleave
MaxWriters == 2
\* the createFile calls made in one behaviour, where calls interleave
MaxCallers == 2

\* ------------------------------------------------------------ basic values
Min(a, b) == IF a < b THEN a ELSE b
Max(a, b) == IF a > b THEN a ELSE b

\* new Uint8Array(n) / new ArrayBuffer(n): n zero bytes
Zeros(n) == [i \in 1..n |-> 0]

\* the absent File (a null or undefined handle.file); no content holds -1
Null == <<-1>>

\* Blob.slice(start, end): both ends are clamped to the blob, a negative one
\* counts from the end
RelIndex(i, size) == IF i < 0 THEN Max(size + i, 0) ELSE Min(i, size)
Slice(b, start, end) == SubSeq(b, RelIndex(start, Len(b)) + 1, RelIndex(end, Len(b)))
SliceFrom(b, start) == Slice(b, start, Len(b))

\* the payloads written: the prefixes of 5, 6, 7, ...
Payloads == {[i \in 1..n |-> 4 + i] : n \in 0..MaxPayload}
\* the content a file starts with: 11, 12, ...
InitContent == [i \in 1..MaxPayload |-> 10 + i]
\* the numeric arguments: one negative number and 0..MaxPos
Numbers == -1..MaxPos

\* -------------------------------------------------------------------- state
VARIABLES
    heap,       \* the handle objects: [kind, name, file, _data, _parent]
    sinks,      \* the write sessions: [handle, file, position, state]
    _handles,   \* WebAccessFS._handles: path -> handle
    index,      \* WebAccessFS.index: path -> inode
    nops,       \* commands, calls or operations issued so far
    storage,    \* the Storage under WebStorageStore: key string -> stored bytes
    calls,      \* the asynchronous calls in flight: their position and locals
    children,   \* XMLFS.root.children: the nodes [paths, nlink, mode, textContent]
    last        \* the last operation, its arguments and its outcome

vars == <<heap, sinks, _handles, index, nops, storage, calls, children, last>>

NoParent == 0
root == 1

\* new FileHandle(name, new File([], name))
FileHandle(name, file) ==
    [kind |-> "file", name |-> name, file |-> file, _data |-> <<>>, _parent |-> NoParent]
\* new DirectoryHandle(name)
DirectoryHandle(name) ==
    [kind |-> "directory", name |-> name, file |-> Null, _data |-> <<>>, _parent |-> NoParent]

\* ------------------------------------------------------------ handle tree
\* a Map (DirectoryHandle._data, the index): its entries in insertion order
MapHas(m, k) == \E i \in 1..Len(m) : m[i].key = k
MapGet(m, k) == m[CHOOSE i \in 1..Len(m) : m[i].key = k].value
MapSet(m, k, v) ==
    IF MapHas(m, k)
    THEN [i \in 1..Len(m) |-> IF m[i].key = k THEN [key |-> k, value |-> v] ELSE m[i]]
    ELSE Append(m, [key |-> k, value |-> v])
MapDelete(m, k) == SelectSeq(m, LAMBDA e : e.key # k)
MapKeys(m) == [i \in 1..Len(m) |-> m[i].key]
MapValues(m) == [i \in 1..Len(m) |-> m[i].value]
KeySet(m) == {m[i].key : i \in 1..Len(m)}

\* name.includes('/')
Includes(name, c) == \E i \in 1..Len(name) : name[i] = c

NameErrorMutSlash(name) ==
    IF name = <<>> THEN "TypeError"
    ELSE IF name = <<".">> \/ name = <<".", ".">> THEN "TypeError"
    ELSE "none"
\* the two name checks that open _get and removeEntry
NameError(name) ==
    IF name = <<>> THEN "TypeError"
    ELSE IF name = <<".">> \/ name = <<".", ".">> \/ Includes(name, "/") THEN "TypeError"
    ELSE "none"

_getMutReset(hp, dir, kind, name, create) ==
    IF NameError(name) # "none" THEN [heap |-> hp, err |-> NameError(name), handle |-> 0]
    ELSE LET m == hp[dir]._data
         IN IF MapHas(m, name) /\ hp[MapGet(m, name)].kind # kind
            THEN [heap |-> hp, err |-> "TypeMismatchError", handle |-> 0]
            ELSE IF MapHas(m, name) /\ ~create
            THEN [heap |-> hp, err |-> "none", handle |-> MapGet(m, name)]
            ELSE IF ~create
            THEN [heap |-> hp, err |-> "NotFoundError", handle |-> 0]
            ELSE LET h == Len(hp) + 1
                     new == IF kind = "directory" THEN DirectoryHandle(name)
                            ELSE FileHandle(name, <<>>)
                 IN [heap |-> Append([hp EXCEPT ![dir]._data = MapSet(@, name, h)], new),
                     err |-> "none", handle |-> h]
\* DirectoryHandle._get(kind, name, options): the heap after the call, the
\* exception thrown and the handle returned
_get(hp, dir, kind, name, create) ==
    IF NameError(name) # "none" THEN [heap |-> hp, err |-> NameError(name), handle |-> 0]
    ELSE LET m == hp[dir]._data
         IN IF MapHas(m, name) /\ hp[MapGet(m, name)].kind # kind
            THEN [heap |-> hp, err |-> "TypeMismatchError", handle |-> 0]
            ELSE IF MapHas(m, name)
            THEN [heap |-> hp, err |-> "none", handle |-> MapGet(m, name)]
            ELSE IF ~create
            THEN [heap |-> hp, err |-> "NotFoundError", handle |-> 0]
            ELSE LET h == Len(hp) + 1
                     new == IF kind = "directory" THEN DirectoryHandle(name)
                            ELSE FileHandle(name, <<>>)
                 IN [heap |-> Append([hp EXCEPT ![dir]._data = MapSet(@, name, h)], new),
                     err |-> "none", handle |-> h]

getFileHandle(hp, dir, name, create) == _get(hp, dir, "file", name, create)
getDirectoryHandle(hp, dir, name, create) == _get(hp, dir, "directory", name, create)

\* FileHandle.remove() has an empty body; DirectoryHandle.remove(options)
\* removes its entries (their promises are not awaited, and with recursive
\* true they do not reject), clears its map and deletes itself from _parent,
\* which nothing ever sets
RECURSIVE remove(_, _, _)
RECURSIVE removeEach(_, _)
remove(hp, h, recursive) ==
    IF hp[h].kind = "file" THEN [heap |-> hp, err |-> "none"]
    ELSE IF Len(hp[h]._data) > 0 /\ ~recursive
    THEN [heap |-> hp, err |-> "InvalidModificationError"]
    ELSE LET hp1 == removeEach(hp, MapValues(hp[h]._data))
             hp2 == [hp1 EXCEPT ![h]._data = <<>>]
             parent == hp2[h]._parent
         IN [heap |-> IF parent # NoParent
                      THEN [hp2 EXCEPT ![parent]._data = MapDelete(@, hp2[h].name)]
                      ELSE hp2,
             err |-> "none"]
removeEach(hp, entries) ==
    IF entries = <<>> THEN hp
    ELSE removeEach(remove(hp, Head(entries), TRUE).heap, Tail(entries))

\* DirectoryHandle.removeEntry(name, options): entry.remove(options) is called
\* and its promise dropped, so its rejection never reaches the caller
removeEntry(hp, dir, name, recursive) ==
    IF NameError(name) # "none" THEN [heap |-> hp, err |-> NameError(name), dropped |-> "none"]
    ELSE IF ~MapHas(hp[dir]._data, name)
    THEN [heap |-> hp, err |-> "NotFoundError", dropped |-> "none"]
    ELSE LET r == remove(hp, MapGet(hp[dir]._data, name), recursive)
         IN [heap |-> r.heap, err |-> "none", dropped |-> r.err]

\* the handles below a set of handles, through _data
Children(hp, h) == {hp[h]._data[i].value : i \in 1..Len(hp[h]._data)}
RECURSIVE Below(_, _, _)
Below(hp, hs, n) ==
    IF n = 0 THEN hs
    ELSE Below(hp, hs \cup UNION {Children(hp, h) : h \in hs}, n - 1)
Reachable(hp) == Below(hp, {root}, Len(hp))

\* ----------------------------------------------------------------- Sink
\* the write and close of a session's Sink, and the stream around it

SinkMutKeep(hp, h, keepExistingData) ==
    [handle |-> h, file |-> hp[h].file, position |-> 0, state |-> "writable"]
\* new Sink(handle, { keepExistingData })
Sink(hp, h, keepExistingData) ==
    [handle |-> h,
     file |-> IF keepExistingData THEN hp[h].file ELSE <<>>,
     position |-> 0,
     state |-> "writable"]

\* const head = this.file.slice(0, this.position)
SinkHead(file, position) == Slice(file, 0, position)

SinkTailMutDup(file, position, size) == SliceFrom(file, position)
\* const tail = this.file.slice(this.position + chunk.size)
SinkTail(file, position, size) == SliceFrom(file, position + size)

\* let padding = this.position - head.size; if (padding < 0) padding = 0
SinkPadding(position, head) ==
    LET padding == position - Len(head) IN IF padding < 0 THEN 0 ELSE padding

\* lines 61-72 of Sink.write: splice the payload in at the cursor
SinkSplice(s, data) ==
    LET head == SinkHead(s.file, s.position)
        tail == SinkTail(s.file, s.position, Len(data))
        padding == SinkPadding(s.position, head)
    IN [s EXCEPT !.file = head \o Zeros(padding) \o data \o tail,
                 !.position = s.position + Len(data)]

IsIntegerMutAny(chunk, field) == field \in DOMAIN chunk
\* Number.isInteger(chunk.position) / Number.isInteger(chunk.size): a chunk
\* with the field fraction carries the number position + 1/2 or size + 1/2,
\* a chunk without the numeric field carries undefined
IsInteger(chunk, field) ==
    field \in DOMAIN chunk /\ "fraction" \notin DOMAIN chunk /\ chunk[field] \in Int

SinkSeekMutClamp(s, position) == [s EXCEPT !.position = Min(position, Len(s.file))]
\* this.position = chunk.position
SinkSeek(s, position) == [s EXCEPT !.position = position]

SinkTruncateMutKeepCursor(s, size) ==
    [s EXCEPT !.file = IF size < Len(s.file) THEN Slice(s.file, 0, size)
                       ELSE s.file \o Zeros(size - Len(s.file))]
\* lines 35-44 of Sink.write: cut down or extend with zeros, then clamp the cursor
SinkTruncate(s, size) ==
    LET file == IF size < Len(s.file) THEN Slice(s.file, 0, size)
                ELSE IF size > Len(s.file) THEN s.file \o Zeros(size - Len(s.file))
                ELSE s.file
    IN [s EXCEPT !.file = file,
                 !.position = IF s.position > Len(file) THEN Len(file) ELSE s.position]

\* Sink.write(chunk): the sink after the call and the exception thrown
SinkWrite(hp, s, chunk) ==
    IF hp[s.handle].file = Null THEN [sink |-> s, err |-> "NotFoundError"]
    ELSE IF chunk.type = "seek" THEN
        IF ~IsInteger(chunk, "position") \/ chunk.position < 0
        THEN [sink |-> s, err |-> "SyntaxError"]
        ELSE [sink |-> SinkSeek(s, chunk.position), err |-> "none"]
    ELSE IF chunk.type = "truncate" THEN
        IF ~IsInteger(chunk, "size") \/ chunk.size < 0
        THEN [sink |-> s, err |-> "SyntaxError"]
        ELSE [sink |-> SinkTruncate(s, chunk.size), err |-> "none"]
    ELSE LET s1 == IF chunk.type = "write" /\ "position" \in DOMAIN chunk /\ chunk.position >= 0
                   THEN [s EXCEPT !.position = chunk.position,
                                  !.file = IF Len(s.file) < chunk.position
                                           THEN s.file \o Zeros(chunk.position - Len(s.file))
                                           ELSE s.file]
                   ELSE s
         IN IF chunk.type = "write" /\ "data" \notin DOMAIN chunk
            THEN [sink |-> s1, err |-> "SyntaxError"]
            ELSE [sink |-> SinkSplice(s1, chunk.data), err |-> "none"]

\* the chunks a caller hands to write: a raw payload or a command
Chunks ==
    [type : {"raw"}, data : Payloads]
    \cup [type : {"seek"}, position : Numbers] \cup [type : {"seek"}]
    \cup [type : {"seek"}, position : Numbers, fraction : {TRUE}]
    \cup [type : {"truncate"}, size : Numbers] \cup [type : {"truncate"}]
    \cup [type : {"truncate"}, size : Numbers, fraction : {TRUE}]
    \cup [type : {"write"}, data : Payloads]
    \cup [type : {"write"}, position : Numbers, data : Payloads]
    \cup [type : {"write"}, position : Numbers] \cup [type : {"write"}]

\* FileHandle.createWritable(options), while fewer than a number of sessions
\* have been opened
CreateWritable(h, keepExistingData, sessions) ==
    /\ Len(sinks) < sessions
    /\ h \in 1..Len(heap) /\ heap[h].kind = "file"
    /\ IF heap[h].file = Null
       THEN /\ last' = [op |-> "createWritable", handle |-> h, err |-> "NotFoundError"]
            /\ UNCHANGED sinks
       ELSE /\ sinks' = Append(sinks, Sink(heap, h, keepExistingData))
            /\ last' = [op |-> "createWritable", handle |-> h, keep |-> keepExistingData,
                        sid |-> Len(sinks) + 1, err |-> "none"]
    /\ UNCHANGED <<heap, _handles, index, nops, storage, calls, children>>

DoCreateWritable(h, keepExistingData) == CreateWritable(h, keepExistingData, MaxSessions)

\* WritableFileStream.write(data), seek(position) and truncate(size): the
\* chunk reaches Sink.write while the stream is writable; a throwing sink
\* errors the stream, and a closed or errored stream rejects every write
DoStreamWrite(sid, chunk) ==
    /\ sid \in 1..Len(sinks)
    /\ nops < MaxCmds
    /\ nops' = nops + 1
    /\ IF sinks[sid].state # "writable"
       THEN /\ last' = [op |-> "write", sid |-> sid, type |-> chunk.type,
                        err |-> "StreamNotWritable"]
            /\ UNCHANGED sinks
       ELSE LET r == SinkWrite(heap, sinks[sid], chunk)
            IN /\ sinks' = [sinks EXCEPT ![sid] =
                              IF r.err = "none" THEN r.sink
                              ELSE [r.sink EXCEPT !.state = "errored"]]
               /\ last' = [op |-> "write", sid |-> sid, chunk |-> chunk, pre |-> sinks[sid],
                           err |-> r.err]
    /\ UNCHANGED <<heap, _handles, index, storage, calls, children>>

SinkCloseMutNoCommit(hp, s) == hp
SinkCloseMutFirstWins(hp, s) ==
    IF hp[s.handle].file = InitContent THEN [hp EXCEPT ![s.handle].file = s.file] ELSE hp
\* Sink.close(): this.handle.file = this.file
SinkClose(hp, s) == [hp EXCEPT ![s.handle].file = s.file]

\* WritableFileStream.close() -> Sink.close()
DoStreamClose(sid) ==
    /\ sid \in 1..Len(sinks)
    /\ LET s == sinks[sid]
       IN IF s.state # "writable"
          THEN /\ last' = [op |-> "close", sid |-> sid, pre |-> s, err |-> "StreamNotWritable"]
               /\ UNCHANGED <<heap, sinks>>
          ELSE IF heap[s.handle].file = Null
          THEN /\ sinks' = [sinks EXCEPT ![sid].state = "errored"]
               /\ last' = [op |-> "close", sid |-> sid, pre |-> s, err |-> "NotFoundError"]
               /\ UNCHANGED heap
          ELSE /\ heap' = SinkClose(heap, s)
               /\ sinks' = [sinks EXCEPT ![sid].state = "closed"]
               /\ last' = [op |-> "close", sid |-> sid, pre |-> s, err |-> "none"]
    /\ UNCHANGED <<_handles, index, nops, storage, calls, children>>

\* ------------------------------------------------ write sessions on one file
InitSink ==
    /\ heap = <<[DirectoryHandle(<<>>) EXCEPT !._data = <<[key |-> <<"a">>, value |-> 2]>>],
               FileHandle(<<"a">>, InitContent)>>
    /\ sinks = <<>>
    /\ _handles = (<<"/">> :> root)
    /\ index = <<[key |-> <<"/">>, value |-> [mode |-> "S_IFDIR", size |-> 0]]>>
    /\ nops = 0
    /\ storage = <<>>
    /\ calls = <<>>
    /\ children = <<>>
    /\ last = [op |-> "init"]

NextSink ==
    \/ \E keep \in BOOLEAN : DoCreateWritable(2, keep)
    \/ \E sid \in 1..MaxSessions, chunk \in Chunks : DoStreamWrite(sid, chunk)
    \/ \E sid \in 1..MaxSessions : DoStreamClose(sid)

SpecSink == InitSink /\ [][NextSink]_vars

\* ------------------------------------------------------------------- paths
\* a path is the sequence of its characters
Sep == "/"
LastSep(p) == CHOOSE i \in 1..Len(p) : p[i] = Sep /\ \A j \in (i + 1)..Len(p) : p[j] # Sep
dirname(p) == IF LastSep(p) = 1 THEN <<Sep>> ELSE SubSeq(p, 1, LastSep(p) - 1)
basename(p) == SubSeq(p, LastSep(p) + 1, Len(p))
join(p, f) == IF p = <<Sep>> THEN p \o f ELSE p \o <<Sep>> \o f
\* newPath.startsWith(prefix)
StartsWith(p, prefix) == Len(p) >= Len(prefix) /\ SubSeq(p, 1, Len(prefix)) = prefix

PathNames == {<<"a">>, <<"b">>}
RECURSIVE PathsOfDepth(_)
PathsOfDepth(n) ==
    IF n = 0 THEN {<<Sep>>} ELSE {join(p, f) : p \in PathsOfDepth(n - 1), f \in PathNames}
Paths == UNION {PathsOfDepth(n) : n \in 0..MaxDepth}

\* ------------------------------------------------------------- WebAccessFS
\* the adapter's methods, as functions of the store st = [heap, _handles,
\* index] they run against: the store they leave, and the error they throw

Store == [heap |-> heap, _handles |-> _handles, index |-> index]
Ok(st) == [st |-> st, err |-> "none"]
Fail(st, e) == [st |-> st, err |-> e]

\* new Inode({ ...options, mode: mode | S_IFDIR }) / ({ ..., mode: mode | S_IFREG })
Inode(mode, size) == [mode |-> mode, size |-> size]

\* convertException(ex, path, syscall), for the exceptions the handles throw
convertException(ex) ==
    IF ex = "NotFoundError" THEN "ENOENT"
    ELSE IF ex \in {"TypeMismatchError", "SyntaxError"} THEN "EINVAL"
    ELSE IF ex = "InvalidModificationError" THEN "EACCES"
    ELSE "EIO"

getMutNoKind(st, kind, path) ==
    IF path \notin DOMAIN st._handles THEN [err |-> "ENODATA", handle |-> 0]
    ELSE [err |-> "none", handle |-> st._handles[path]]
\* this.get(kind, path, syscall)
get(st, kind, path) ==
    IF path \notin DOMAIN st._handles THEN [err |-> "ENODATA", handle |-> 0]
    ELSE LET handle == st._handles[path]
         IN IF kind # "null" /\ st.heap[handle].kind # kind
            THEN [err |-> IF kind = "directory" THEN "ENOTDIR" ELSE "EISDIR", handle |-> 0]
            ELSE [err |-> "none", handle |-> handle]

\* this.index.directoryEntries(path): the indexed paths whose parent is path
directoryEntries(ix, path) ==
    MapKeys(SelectSeq(ix, LAMBDA e : dirname(e.key) = path /\ e.key # path))

\* readdir(path), served from the index
readdir(st, path) ==
    IF ~MapHas(st.index, path) THEN [err |-> "ENOENT", entries |-> <<>>]
    ELSE IF MapGet(st.index, path).mode # "S_IFDIR" THEN [err |-> "ENOTDIR", entries |-> <<>>]
    ELSE [err |-> "none",
          entries |-> LET e == directoryEntries(st.index, path)
                      IN [i \in 1..Len(e) |-> basename(e[i])]]

\* stat(path)
stat(st, path) ==
    IF ~MapHas(st.index, path) THEN [err |-> "ENOENT", inode |-> Inode("none", 0)]
    ELSE [err |-> "none", inode |-> MapGet(st.index, path)]

\* mkdir(path, mode, options)
mkdir(st, path) ==
    IF MapHas(st.index, path) THEN Fail(st, "EEXIST")
    ELSE LET handle == get(st, "directory", dirname(path))
         IN IF handle.err # "none" THEN Fail(st, handle.err)
            ELSE LET dir == getDirectoryHandle(st.heap, handle.handle, basename(path), TRUE)
                 IN IF dir.err # "none" THEN Fail(st, dir.err)
                    ELSE Ok([heap |-> dir.heap,
                             _handles |-> (path :> dir.handle) @@ st._handles,
                             index |-> MapSet(st.index, path, Inode("S_IFDIR", 0))])

\* createFile(path, flag, mode, options)
createFile(st, path) ==
    LET handle == get(st, "directory", dirname(path))
    IN IF handle.err # "none" THEN Fail(st, handle.err)
       ELSE IF MapHas(st.index, path) THEN Fail(st, "EEXIST")
       ELSE LET file == getFileHandle(st.heap, handle.handle, basename(path), TRUE)
            IN IF file.err # "none" THEN Fail(st, file.err)
               ELSE Ok([heap |-> file.heap,
                        _handles |-> (path :> file.handle) @@ st._handles,
                        index |-> MapSet(st.index, path, Inode("S_IFREG", 0))])

\* unlink(path)
unlink(st, path) ==
    IF path = <<Sep>> THEN Fail(st, "EBUSY")
    ELSE LET handle == get(st, "directory", dirname(path))
         IN IF handle.err # "none" THEN Fail(st, handle.err)
            ELSE LET r == removeEntry(st.heap, handle.handle, basename(path), TRUE)
                 IN IF r.err # "none" THEN Fail(st, convertException(r.err))
                    ELSE Ok([st EXCEPT !.heap = r.heap, !.index = MapDelete(@, path)])

\* rmdir(path)
rmdir(st, path) ==
    LET entries == readdir(st, path)
    IN IF entries.err # "none" THEN Fail(st, entries.err)
       ELSE IF Len(entries.entries) > 0 THEN Fail(st, "ENOTEMPTY")
       ELSE IF path = <<Sep>> THEN Fail(st, "EBUSY")
       ELSE LET handle == get(st, "directory", dirname(path))
            IN IF handle.err # "none" THEN Fail(st, handle.err)
               ELSE LET r == removeEntry(st.heap, handle.handle, basename(path), TRUE)
                    IN IF r.err # "none" THEN Fail(st, convertException(r.err))
                       ELSE Ok([st EXCEPT !.heap = r.heap, !.index = MapDelete(@, path)])

\* a write session opened, used and closed inside one adapter method:
\* createWritable(), seek(offset) when the method seeks, write(data), close()
\* -> the heap it leaves and the exception it throws
WriteThrough(hp, h, seeks, offset, data) ==
    IF hp[h].file = Null THEN [heap |-> hp, err |-> "NotFoundError"]
    ELSE LET s0 == Sink(hp, h, FALSE)
             r1 == IF seeks THEN SinkWrite(hp, s0, [type |-> "seek", position |-> offset])
                   ELSE [sink |-> s0, err |-> "none"]
         IN IF r1.err # "none" THEN [heap |-> hp, err |-> r1.err]
            ELSE LET r2 == SinkWrite(hp, r1.sink, [type |-> "raw", data |-> data])
                 IN IF r2.err # "none" THEN [heap |-> hp, err |-> r2.err]
                    ELSE [heap |-> SinkClose(hp, r2.sink), err |-> "none"]

\* rename(oldPath, newPath)
RECURSIVE rename(_, _, _)
RECURSIVE renameEach(_, _, _, _)
rename(st, oldPath, newPath) ==
    IF oldPath = newPath THEN Ok(st)
    ELSE IF StartsWith(newPath, oldPath \o <<Sep>>) THEN Fail(st, "EBUSY")
    ELSE LET handle == get(st, "null", oldPath)
         IN IF handle.err # "none" THEN Fail(st, handle.err)
            ELSE IF st.heap[handle.handle].kind = "directory"
            THEN LET files == readdir(st, oldPath)
                     stats == stat(st, oldPath)
                 IN IF files.err # "none" THEN Fail(st, files.err)
                    ELSE IF stats.err # "none" THEN Fail(st, stats.err)
                    ELSE LET made == mkdir(st, newPath)
                         IN IF made.err # "none" THEN made
                            ELSE LET moved == renameEach(made.st, files.entries, oldPath, newPath)
                                 IN IF moved.err # "none" THEN moved
                                    ELSE rmdir(moved.st, oldPath)
            ELSE LET oldFile == st.heap[handle.handle].file
                     destFolder == get(st, "directory", dirname(newPath))
                 IN IF oldFile = Null THEN Fail(st, convertException("NotFoundError"))
                    ELSE IF destFolder.err # "none" THEN Fail(st, destFolder.err)
                    ELSE LET newFile == getFileHandle(st.heap, destFolder.handle,
                                                      basename(newPath), TRUE)
                         IN IF newFile.err = "TypeMismatchError" THEN Fail(st, "EISDIR")
                            ELSE IF newFile.err # "none"
                            THEN Fail(st, convertException(newFile.err))
                            ELSE LET written == WriteThrough(newFile.heap, newFile.handle,
                                                             FALSE, 0, oldFile)
                                     st1 == [st EXCEPT !.heap = written.heap]
                                 IN IF written.err # "none" THEN Fail(st1, written.err)
                                    ELSE LET unlinked == unlink(st1, oldPath)
                                         IN IF unlinked.err # "none" THEN unlinked
                                            ELSE Ok([unlinked.st EXCEPT !._handles =
                                                       (newPath :> newFile.handle) @@ @])
renameEach(st, files, oldPath, newPath) ==
    IF files = <<>> THEN Ok(st)
    ELSE LET r == rename(st, join(oldPath, Head(files)), join(newPath, Head(files)))
         IN IF r.err # "none" THEN r ELSE renameEach(r.st, Tail(files), oldPath, newPath)

ReadRangeMutShort(data, offset, end) == SubSeq(data, offset + 1, end - 1)
\* new Uint8Array(data, offset, end - offset)
ReadRange(data, offset, end) == SubSeq(data, offset + 1, end)

\* read(path, buffer, offset, end): the error thrown and the buffer afterwards
read(st, path, buffer, offset, end) ==
    IF end <= offset THEN [err |-> "none", buffer |-> buffer]
    ELSE LET handle == get(st, "file", path)
         IN IF handle.err # "none" THEN [err |-> handle.err, buffer |-> buffer]
            ELSE LET data == st.heap[handle.handle].file
                 IN IF data = Null THEN [err |-> "NotFoundError", buffer |-> buffer]
                    ELSE IF Len(data) < end - offset THEN [err |-> "ENODATA", buffer |-> buffer]
                    ELSE IF offset > Len(data) \/ end > Len(data) \/ end - offset > Len(buffer)
                    THEN [err |-> "RangeError", buffer |-> buffer]
                    ELSE LET range == ReadRange(data, offset, end)
                         IN [err |-> "none",
                             buffer |-> [i \in 1..Len(buffer) |->
                                           IF i <= Len(range) THEN range[i] ELSE buffer[i]]]

writeMutStaleSize(st, path, buffer, offset) ==
    IF ~MapHas(st.index, path) THEN Fail(st, "ENOENT")
    ELSE LET handle == get(st, "file", path)
         IN IF handle.err # "none" THEN Fail(st, handle.err)
            ELSE LET written == WriteThrough(st.heap, handle.handle, TRUE, offset, buffer)
                 IN IF written.err # "none" THEN Fail(st, written.err)
                    ELSE Ok([st EXCEPT !.heap = written.heap])
\* write(path, buffer, offset)
write(st, path, buffer, offset) ==
    IF ~MapHas(st.index, path) THEN Fail(st, "ENOENT")
    ELSE LET inode == MapGet(st.index, path)
             handle == get(st, "file", path)
         IN IF handle.err # "none" THEN Fail(st, handle.err)
            ELSE LET written == WriteThrough(st.heap, handle.handle, TRUE, offset, buffer)
                 IN IF written.err # "none" THEN Fail(st, written.err)
                    ELSE Ok([st EXCEPT
                               !.heap = written.heap,
                               !.index = MapSet(@, path,
                                   [inode EXCEPT !.size = Len(written.heap[handle.handle].file)])])

\* ------------------------------------------------------ adapter operations
Install(r) ==
    /\ Len(r.st.heap) <= MaxHandles
    /\ heap' = r.st.heap /\ _handles' = r.st._handles /\ index' = r.st.index
Step == nops < MaxOps /\ nops' = nops + 1 /\ UNCHANGED <<sinks, storage, calls, children>>

DoCreateFile(path) ==
    /\ Step /\ Install(createFile(Store, path))
    /\ last' = [op |-> "createFile", path |-> path, err |-> createFile(Store, path).err]
DoMkdir(path) ==
    /\ Step /\ Install(mkdir(Store, path))
    /\ last' = [op |-> "mkdir", path |-> path, err |-> mkdir(Store, path).err]
DoUnlink(path) ==
    /\ Step /\ Install(unlink(Store, path))
    /\ last' = [op |-> "unlink", path |-> path, err |-> unlink(Store, path).err]
DoRmdir(path) ==
    /\ Step /\ Install(rmdir(Store, path))
    /\ last' = [op |-> "rmdir", path |-> path, err |-> rmdir(Store, path).err]
DoRename(oldPath, newPath) ==
    /\ Step /\ Install(rename(Store, oldPath, newPath))
    /\ last' = [op |-> "rename", path |-> oldPath, newPath |-> newPath,
                err |-> rename(Store, oldPath, newPath).err]
DoWrite(path, buffer, offset) ==
    /\ Step /\ Install(write(Store, path, buffer, offset))
    /\ last' = [op |-> "write", path |-> path, buffer |-> buffer, offset |-> offset,
                err |-> write(Store, path, buffer, offset).err,
                before |-> IF get(Store, "file", path).err = "none"
                           THEN heap[get(Store, "file", path).handle].file ELSE Null]
\* the caller's buffer holds 9s and is as long as the range asked for
DoRead(path, offset, end) ==
    /\ Step /\ UNCHANGED <<heap, _handles, index>>
    /\ LET r == read(Store, path, [i \in 1..Max(0, end - offset) |-> 9], offset, end)
       IN last' = [op |-> "read", path |-> path, offset |-> offset, end |-> end,
                   err |-> r.err, buffer |-> r.buffer]
DoStat(path) ==
    /\ Step /\ UNCHANGED <<heap, _handles, index>>
    /\ last' = [op |-> "stat", path |-> path, err |-> stat(Store, path).err,
                inode |-> stat(Store, path).inode]
DoReaddir(path) ==
    /\ Step /\ UNCHANGED <<heap, _handles, index>>
    /\ last' = [op |-> "readdir", path |-> path, err |-> readdir(Store, path).err,
                entries |-> readdir(Store, path).entries]

\* WebAccess.create({ handle }) on the empty root: the root is cached and indexed
InitFS ==
    /\ heap = <<DirectoryHandle(<<>>)>>
    /\ sinks = <<>>
    /\ _handles = (<<Sep>> :> root)
    /\ index = <<[key |-> <<Sep>>, value |-> Inode("S_IFDIR", 0)]>>
    /\ nops = 0
    /\ storage = <<>>
    /\ calls = <<>>
    /\ children = <<>>
    /\ last = [op |-> "init"]

WriteOffsets == 0..1
NextFS ==
    \/ \E path \in Paths : DoCreateFile(path)
    \/ \E path \in Paths : DoMkdir(path)
    \/ \E path \in Paths : DoUnlink(path)
    \/ \E path \in Paths : DoRmdir(path)
    \/ \E oldPath \in Paths, newPath \in Paths : DoRename(oldPath, newPath)
    \/ \E path \in Paths, buffer \in Payloads, offset \in WriteOffsets :
          DoWrite(path, buffer, offset)
    \/ \E path \in Paths, offset \in WriteOffsets, end \in 0..(MaxPayload + 1) :
          DoRead(path, offset, end)
    \/ \E path \in Paths : DoStat(path)
    \/ \E path \in Paths : DoReaddir(path)

SpecFS == InitFS /\ [][NextFS]_vars

\* ------------------------------------------------------------- claims: Sink
\* the first n elements of C, and C without them
Take(C, n) == [i \in 1..Min(n, Len(C)) |-> C[i]]
Drop(C, n) == [i \in 1..Max(0, Len(C) - n) |-> C[i + n]]

\* the last operation was a write of a payload that Sink.write accepted
PayloadWritten == last.op = "write" /\ last.err = "none" /\ last.chunk.type \in {"raw", "write"}
\* the cursor that write started from: the explicit position when it has one
WrittenAt ==
    IF last.chunk.type = "write" /\ "position" \in DOMAIN last.chunk /\ last.chunk.position >= 0
    THEN last.chunk.position ELSE last.pre.position

\* C1: a write of payload X at cursor p over content C leaves exactly
\* C[0:p] ++ zeros(max(0, p - len(C[0:p]))) ++ X ++ C[p+len(X):] and the
\* cursor at p + len(X)
C1_SpliceCorrect ==
    PayloadWritten =>
        LET C == last.pre.file
            p == WrittenAt
            X == last.chunk.data
        IN /\ sinks[last.sid].file
                = Take(C, p) \o Zeros(Max(0, p - Len(Take(C, p)))) \o X \o Drop(C, p + Len(X))
           /\ sinks[last.sid].position = p + Len(X)

\* C1 witness: a non-empty payload written beyond the end of a non-empty content
C1_Witness_Gap ==
    /\ PayloadWritten
    /\ Len(last.pre.file) > 0 /\ WrittenAt > Len(last.pre.file) /\ Len(last.chunk.data) > 0
    /\ last.chunk.type = "raw"

TreeNames == {<<"a">>, <<"b">>, <<>>, <<".">>, <<".", ".">>, <<"a", "/", "b">>}
Directories(hp) == {h \in 1..Len(hp) : hp[h].kind = "directory"}

\* dir.getFileHandle(name, { create }) and dir.getDirectoryHandle(name, { create })
DoGetHandle(dir, kind, name, create) ==
    /\ dir \in Directories(heap)
    /\ nops < MaxOps
    /\ nops' = nops + 1
    /\ LET r == _get(heap, dir, kind, name, create)
       IN /\ Len(r.heap) <= MaxHandles
          /\ heap' = r.heap
          /\ last' = [op |-> IF kind = "file" THEN "getFileHandle" ELSE "getDirectoryHandle",
                      dir |-> dir, name |-> name, create |-> create,
                      err |-> r.err, handle |-> r.handle]
    /\ UNCHANGED <<sinks, _handles, index, storage, calls, children>>

\* dir.removeEntry(name, { recursive })
DoRemoveEntry(dir, name, recursive) ==
    /\ dir \in Directories(heap)
    /\ nops < MaxOps
    /\ nops' = nops + 1
    /\ LET r == removeEntry(heap, dir, name, recursive)
       IN /\ heap' = r.heap
          /\ last' = [op |-> "removeEntry", dir |-> dir, name |-> name,
                      recursive |-> recursive, err |-> r.err, dropped |-> r.dropped,
                      entry |-> IF NameError(name) = "none" /\ MapHas(heap[dir]._data, name)
                                THEN MapGet(heap[dir]._data, name) ELSE 0]
    /\ UNCHANGED <<sinks, _handles, index, storage, calls, children>>

\* export const handle = new DirectoryHandle('')
InitTree ==
    /\ heap = <<DirectoryHandle(<<>>)>>
    /\ sinks = <<>>
    /\ _handles = (<<"/">> :> root)
    /\ index = <<[key |-> <<"/">>, value |-> [mode |-> "S_IFDIR", size |-> 0]]>>
    /\ nops = 0
    /\ storage = <<>>
    /\ calls = <<>>
    /\ children = <<>>
    /\ last = [op |-> "init"]

NextTree ==
    \/ \E dir \in 1..MaxHandles, kind \in {"file", "directory"}, name \in TreeNames,
          create \in BOOLEAN : DoGetHandle(dir, kind, name, create)
    \/ \E dir \in 1..MaxHandles, name \in TreeNames, recursive \in BOOLEAN :
          DoRemoveEntry(dir, name, recursive)

SpecTree == InitTree /\ [][NextTree]_vars

\* ------------------------------------------------------ claims: handle tree
\* the handle a name leads to in a directory before a call
ChildOf(hp, dir, name) == MapGet(hp[dir]._data, name)

\* C7 (as claimed): after a successful removeEntry(name, {recursive: true}) on
\* D, name is no key of D's children, a lookup of name without create fails
\* NotFound, and nothing below the removed handle is reachable from the root
C7_RemovedEntryIsGone ==
    [][(/\ last'.op = "removeEntry" /\ last'.err = "none" /\ last'.recursive
        /\ last' # last)
       => /\ ~MapHas(heap'[last'.dir]._data, last'.name)
          /\ _get(heap', last'.dir, "file", last'.name, FALSE).err = "NotFoundError"
          /\ _get(heap', last'.dir, "directory", last'.name, FALSE).err = "NotFoundError"
          /\ (last'.dir \in Reachable(heap) =>
                Below(heap, {ChildOf(heap, last'.dir, last'.name)}, Len(heap))
                    \cap Reachable(heap') = {})]_vars

\* C8 (as claimed): removeEntry(name) without recursive on a child directory
\* that has children fails with InvalidModificationError and changes
\* nothing; removeEntry of a name that is no child fails NotFound and changes
\* nothing
C8_NonRecursiveRemoveFails ==
    [][(last'.op = "removeEntry" /\ last' # last /\ NameError(last'.name) = "none")
       => /\ (/\ ~last'.recursive
              /\ MapHas(heap[last'.dir]._data, last'.name)
              /\ heap[ChildOf(heap, last'.dir, last'.name)].kind = "directory"
              /\ Len(heap[ChildOf(heap, last'.dir, last'.name)]._data) > 0)
             => (last'.err = "InvalidModificationError" /\ heap' = heap)
          /\ ~MapHas(heap[last'.dir]._data, last'.name)
             => (last'.err = "NotFoundError" /\ heap' = heap)]_vars

\* the names the claim calls invalid: "", ".", "..", and any name with a "/"
IsInvalidName(name) ==
    \/ Len(name) = 0
    \/ (Len(name) = 1 /\ name[1] = ".")
    \/ (Len(name) = 2 /\ name[1] = "." /\ name[2] = ".")
    \/ "/" \in {name[i] : i \in 1..Len(name)}

\* C10: getFileHandle and getDirectoryHandle with an invalid name fail with
\* TypeError, for create true and false, and insert nothing; no directory has
\* an invalid name as a key
C10_InvalidNamesRejected ==
    /\ [](\A h \in 1..Len(heap) : \A i \in 1..Len(heap[h]._data) :
            ~IsInvalidName(heap[h]._data[i].key))
    /\ [][(last'.op \in {"getFileHandle", "getDirectoryHandle"} /\ IsInvalidName(last'.name))
          => (last'.err = "TypeError" /\ heap' = heap)]_vars

\* C10 witness: a directory handle was requested with create under the name
\* "a/b" in a directory that has a child, and the request failed
C10_Witness_SlashName ==
    /\ last.op = "getDirectoryHandle" /\ last.create
    /\ last.name = <<"a", "/", "b">> /\ last.err = "TypeError"
    /\ Len(heap[last.dir]._data) > 0

\* --------------------------------------------------------- claims: adapter
\* the names of a path, and the handle they lead to from a handle (0: none)
RECURSIVE Segments(_)
Segments(p) == IF p = <<Sep>> THEN <<>> ELSE Append(Segments(dirname(p)), basename(p))
RECURSIVE Walk(_, _, _)
Walk(hp, h, names) ==
    IF names = <<>> THEN h
    ELSE IF hp[h].kind = "directory" /\ MapHas(hp[h]._data, Head(names))
    THEN Walk(hp, MapGet(hp[h]._data, Head(names)), Tail(names))
    ELSE 0
\* the handle attached to the tree at a path
Attached(hp, path) == Walk(hp, root, Segments(path))
IndexedAs(ix, path, mode) == MapHas(ix, path) /\ MapGet(ix, path).mode = mode

C4_RenameCacheConsistent ==
    [][(last'.op = "rename" /\ last'.err = "none" /\ last'.path # last'.newPath)
       => /\ get(Store', "null", last'.path).err # "none"
          /\ get(Store', "null", last'.newPath).err = "none"
          /\ heap[_handles[last'.path]].kind = "file"
             => heap'[get(Store', "null", last'.newPath).handle].file
                    = heap[_handles[last'.path]].file]_vars

\* C5 (as claimed): every handle-cache entry at a path is the handle attached
\* to the tree at that path
C5_CacheHoldsAttachedHandles ==
    \A path \in DOMAIN _handles : Attached(heap, path) = _handles[path]

\* C6 (as claimed): the index has an entry for exactly the paths that lead
\* from the root to a handle
C6_IndexMatchesTree ==
    KeySet(index) = {path \in Paths : Attached(heap, path) # 0}

\* C9 (as claimed): rmdir of a directory that has an entry fails ENOTEMPTY
\* and changes nothing; after a successful rmdir the directory is absent from
\* the tree, from the index and from readdir of its parent
C9_RmdirGuard ==
    [][(last'.op = "rmdir")
       => /\ (readdir(Store, last'.path).err = "none"
              /\ Len(readdir(Store, last'.path).entries) > 0)
             => (last'.err = "ENOTEMPTY" /\ Store' = Store)
          /\ last'.err = "none"
             => /\ ~MapHas(index', last'.path)
                /\ Attached(heap', last'.path) = 0
                /\ \A i \in 1..Len(readdir(Store', dirname(last'.path)).entries) :
                     readdir(Store', dirname(last'.path)).entries[i] # basename(last'.path)]_vars

\* ------------------------------- adapter operations and calls on its handles
\* the adapter runs on handles its caller also holds: the operations of the
\* adapter that make, fill, read, stat and remove single entries, interleaved with
\* direct get-or-create calls on the directory handles, under the names the
\* paths are made of
NextFSTree ==
    \/ \E path \in Paths : DoCreateFile(path)
    \/ \E path \in Paths : DoMkdir(path)
    \/ \E path \in Paths : DoUnlink(path)
    \/ \E path \in Paths, buffer \in Payloads, offset \in WriteOffsets :
          DoWrite(path, buffer, offset)
    \/ \E path \in Paths, offset \in WriteOffsets, end \in 0..(MaxPayload + 1) :
          DoRead(path, offset, end)
    \/ \E path \in Paths : DoStat(path)
    \/ \E dir \in 1..MaxHandles, kind \in {"file", "directory"}, name \in PathNames,
          create \in BOOLEAN : DoGetHandle(dir, kind, name, create)

SpecFSTree == InitFS /\ [][NextFSTree]_vars

\* a handle of another kind than the one asked for is cached at the path
KindMismatch(st, kind, path) ==
    path \in DOMAIN st._handles /\ st.heap[st._handles[path]].kind # kind

\* C11: getFileHandle on the name of a directory and getDirectoryHandle on the
\* name of a file fail with TypeMismatchError, with create true and false;
\* an adapter operation that asks for a file at a path holding a directory
\* fails EISDIR, one that asks for a directory at a path holding a file fails
\* ENOTDIR; in each case tree, handle cache and index are unchanged
C11_KindMismatchFails ==
    [][/\ (/\ last'.op \in {"getFileHandle", "getDirectoryHandle"}
           /\ NameError(last'.name) = "none"
           /\ MapHas(heap[last'.dir]._data, last'.name)
           /\ heap[ChildOf(heap, last'.dir, last'.name)].kind
                # (IF last'.op = "getFileHandle" THEN "file" ELSE "directory"))
          => (last'.err = "TypeMismatchError" /\ Store' = Store)
       /\ (/\ \/ last'.op = "read" /\ last'.end > last'.offset
              \/ last'.op = "write" /\ MapHas(index, last'.path)
           /\ KindMismatch(Store, "file", last'.path))
          => (last'.err = "EISDIR" /\ Store' = Store)
       /\ (/\ \/ last'.op = "createFile"
              \/ last'.op = "mkdir" /\ ~MapHas(index, last'.path)
           /\ KindMismatch(Store, "directory", dirname(last'.path)))
          => (last'.err = "ENOTDIR" /\ Store' = Store)]_vars

\* C11 witness: a file handle was requested with create under the name of a
\* directory the adapter made, and the request failed
C11_Witness_FileOverDirectory ==
    /\ last.op = "getFileHandle" /\ last.create /\ last.err = "TypeMismatchError"
    /\ \E path \in DOMAIN _handles :
          /\ path # <<Sep>> /\ heap[_handles[path]].kind = "directory"
          /\ _handles[dirname(path)] = last.dir /\ basename(path) = last.name

\* the kind a call asks for
KindOf(op) == IF op = "getFileHandle" THEN "file" ELSE "directory"

\* C12: getFileHandle / getDirectoryHandle with a valid name: when the name is
\* no child and create is false the call fails NotFoundError and changes
\* nothing; when the name is no child and create is true, one new empty
\* handle of the kind asked for is appended to the children under that name
\* and returned, and nothing else changes; when the name is a child of the
\* kind asked for, that child is returned and nothing changes
C12_GetOrCreate ==
    [][(last'.op \in {"getFileHandle", "getDirectoryHandle"} /\ NameError(last'.name) = "none")
       => LET dir == last'.dir
              name == last'.name
              m == heap[dir]._data
          IN /\ (~MapHas(m, name) /\ ~last'.create)
                => (last'.err = "NotFoundError" /\ Store' = Store)
             /\ (~MapHas(m, name) /\ last'.create)
                => /\ last'.err = "none"
                   /\ Len(heap') = Len(heap) + 1 /\ last'.handle = Len(heap')
                   /\ heap'[last'.handle] =
                        [kind |-> KindOf(last'.op), name |-> name,
                         file |-> IF KindOf(last'.op) = "file" THEN <<>> ELSE Null,
                         _data |-> <<>>, _parent |-> NoParent]
                   /\ heap'[dir]._data = Append(m, [key |-> name, value |-> last'.handle])
                   /\ \A h \in 1..Len(heap) :
                        /\ h # dir => heap'[h] = heap[h]
                        /\ heap'[h].file = heap[h].file
                   /\ _handles' = _handles /\ index' = index
             /\ (MapHas(m, name) /\ heap[MapGet(m, name)].kind = KindOf(last'.op))
                => /\ last'.err = "none" /\ last'.handle = MapGet(m, name)
                   /\ Store' = Store]_vars

\* C12 witness: a file handle was requested with create under the name of a
\* file that holds content, and the file came back with its content
C12_Witness_ExistingKept ==
    /\ last.op = "getFileHandle" /\ last.create /\ last.err = "none"
    /\ Len(heap[last.handle].file) > 0
    /\ MapGet(heap[last.dir]._data, last.name) = last.handle

\* ------------------------------------------------ claims: session commands
\* the last step handed a command of the type to the Sink of an open session
Commanded(type) ==
    /\ last'.op = "write" /\ sinks[last'.sid].state = "writable"
    /\ last'.chunk.type = type
\* the numeric argument is a non-negative integer
IsPosition(chunk, field) ==
    field \in DOMAIN chunk /\ "fraction" \notin DOMAIN chunk /\ chunk[field] >= 0

C15_MalformedCommandFails ==
    [][(/\ \/ Commanded("seek") /\ ~IsPosition(last'.chunk, "position")
           \/ Commanded("truncate") /\ ~IsPosition(last'.chunk, "size"))
       => /\ last'.err = "SyntaxError"
          /\ sinks'[last'.sid].position = sinks[last'.sid].position
          /\ sinks'[last'.sid].file = sinks[last'.sid].file
          /\ heap' = heap]_vars

\* C15 witness: a seek to 1 + 1/2 failed in a session whose cursor had moved
C15_Witness_FractionalSeek ==
    /\ last.op = "write" /\ last.err = "SyntaxError" /\ "chunk" \in DOMAIN last
    /\ last.chunk.type = "seek" /\ "fraction" \in DOMAIN last.chunk
    /\ last.chunk.position = 1 /\ last.pre.position > 1
    /\ sinks[last.sid].position = last.pre.position

C17_CreateGuard ==
    [][(last'.op \in {"createFile", "mkdir"})
       => LET path == last'.path
              kind == IF last'.op = "mkdir" THEN "directory" ELSE "file"
              mode == IF last'.op = "mkdir" THEN "S_IFDIR" ELSE "S_IFREG"
              parent == get(Store, "directory", dirname(path))
          IN /\ MapHas(index, path) => (last'.err = "EEXIST" /\ Store' = Store)
             /\ (~MapHas(index, path) /\ parent.err = "none")
                => /\ last'.err = "none"
                   /\ Len(heap') = Len(heap) + 1
                   /\ heap'[Len(heap')].kind = kind
                   /\ MapHas(heap'[parent.handle]._data, basename(path))
                   /\ MapGet(heap'[parent.handle]._data, basename(path)) = Len(heap')
                   /\ IndexedAs(index', path, mode)
                   /\ path \in DOMAIN _handles' /\ _handles'[path] = Len(heap')]_vars

\* the path q lies strictly below the path p
StrictlyBelow(q, p) ==
    /\ Len(Segments(q)) > Len(Segments(p))
    /\ SubSeq(Segments(q), 1, Len(Segments(p))) = Segments(p)

\* C18 (as claimed): rename(old, new) with old = new succeeds and changes
\* nothing; rename(old, new) with new strictly below old fails EBUSY and
\* changes neither tree, handle cache nor index
C18_RenameIntoSelf ==
    [][(last'.op = "rename")
       => /\ last'.path = last'.newPath => (last'.err = "none" /\ Store' = Store)
          /\ StrictlyBelow(last'.newPath, last'.path)
             => (last'.err = "EBUSY" /\ Store' = Store)]_vars

\* the path below newPath that a path below oldPath moves to
Moved(path, oldPath, newPath) == newPath \o SubSeq(path, Len(oldPath) + 1, Len(path))
\* the adapter holds a file at the path: the index has it as a file and the
\* handle cache resolves it
HoldsFile(st, path) ==
    IndexedAs(st.index, path, "S_IFREG") /\ get(st, "file", path).err = "none"
ContentAt(st, path) == st.heap[get(st, "file", path).handle].file
\* the elements of a sequence
Range(seq) == {seq[i] : i \in 1..Len(seq)}

\* C19 (as claimed): after a successful rename(P, Q) of a directory, every
\* file the adapter held below P is held at the same place below Q with the
\* same content, readdir(Q) returns the names readdir(P) returned, and P and
\* the paths below it are in neither the index nor the tree
C19_DirectoryRenameMovesAll ==
    [][(/\ last'.op = "rename" /\ last'.err = "none" /\ last'.path # last'.newPath
        /\ heap[_handles[last'.path]].kind = "directory")
       => LET P == last'.path
              Q == last'.newPath
          IN /\ \A f \in Paths :
                  (StrictlyBelow(f, P) /\ HoldsFile(Store, f))
                  => /\ HoldsFile(Store', Moved(f, P, Q))
                     /\ ContentAt(Store', Moved(f, P, Q)) = ContentAt(Store, f)
             /\ readdir(Store', Q).err = "none"
             /\ Range(readdir(Store', Q).entries) = Range(readdir(Store, P).entries)
             /\ \A f \in Paths :
                  (f = P \/ StrictlyBelow(f, P))
                  => (~MapHas(index', f) /\ Attached(heap', f) = 0)]_vars

\* C20: write(path, buffer, offset) on a path the index does not hold fails
\* ENOENT, opens no session and changes no content; after a successful write
\* the size of the index entry of path is the length of the content of the
\* handle cached at path
C20_WriteRefreshesSize ==
    [][(last'.op = "write")
       => /\ ~MapHas(index, last'.path)
             => (last'.err = "ENOENT" /\ Store' = Store /\ sinks' = sinks)
          /\ last'.err = "none"
             => /\ MapHas(index', last'.path)
                /\ MapGet(index', last'.path).size
                     = Len(heap'[_handles'[last'.path]].file)]_vars

\* C20 witness: a write at offset 1 into a file left a content longer than
\* the buffer, and the index holds its length
C20_Witness_SizeAfterGap ==
    /\ last.op = "write" /\ last.err = "none" /\ last.offset = 1 /\ Len(last.buffer) = 1
    /\ Len(heap[_handles[last.path]].file) = 2
    /\ MapGet(index, last.path).size = 2

\* ------------------------------------------------- claims: read and errors
\* C21 (as claimed): read(path, buffer, offset, end) with end <= offset
\* succeeds and leaves the buffer as it was; with end > offset on a path that
\* resolves to a file it fails ENODATA when the content is shorter than
\* end - offset, and otherwise succeeds with the content bytes [offset, end)
\* at the start of the buffer
C21_ReadRange ==
    [][(last'.op = "read")
       => LET offset == last'.offset
              end == last'.end
              handle == get(Store, "file", last'.path)
              content == heap[handle.handle].file
          IN /\ end <= offset
                => (last'.err = "none" /\ last'.buffer = [i \in 1..0 |-> 9])
             /\ (end > offset /\ handle.err = "none" /\ content # Null)
                => IF Len(content) < end - offset THEN last'.err = "ENODATA"
                   ELSE /\ last'.err = "none"
                        /\ last'.buffer = [i \in 1..(end - offset) |-> content[offset + i]]]_vars

\* the error codes of the VFS taxonomy (Errno) that the adapter throws
Errnos ==
    {"ENOENT", "EEXIST", "ENOTDIR", "EISDIR", "EBUSY", "ENOTEMPTY", "ENODATA", "EINVAL",
     "EACCES", "EIO", "ENOTSUP"}

\* C22 (as claimed): an adapter operation either succeeds or fails with an
\* error of the VFS taxonomy; no TypeError, RangeError or DOMException of
\* the handles reaches the caller
C22_ErrorsAreTyped ==
    last.op \in {"stat", "read", "write", "createFile", "mkdir", "rmdir", "unlink", "rename",
                 "readdir", "sync"}
    => last.err \in Errnos \cup {"none"}

\* --------------------------------------------------------- WebStorageStore
\* the key-value store over a Storage; a string is the sequence of its
\* UTF-16 code units

\* key.toString(): the decimal digits of a key
Digit(d) == <<"0", "1", "2", "3", "4", "5", "6", "7", "8", "9">>[d + 1]
RECURSIVE toString(_)
toString(n) == IF n < 10 THEN <<Digit(n)>> ELSE Append(toString(n \div 10), Digit(n % 10))

decodeRawMutPack(data) ==
    [i \in 1..((Len(data) + 1) \div 2) |->
        data[2 * i - 1] + 256 * (IF 2 * i <= Len(data) THEN data[2 * i] ELSE 0)]
\* decodeRaw(data): one code unit per byte, String.fromCharCode(byte)
decodeRaw(data) == [i \in 1..Len(data) |-> data[i]]
\* encodeRaw(string): one byte per code unit, charCodeAt stored in a Uint8Array
encodeRaw(string) == [i \in 1..Len(string) |-> string[i] % 256]

IsHigh(u) == u >= 55296 /\ u <= 56319
IsLow(u) == u >= 56320 /\ u <= 57343
\* new TextEncoder().encode(value): UTF-8, a lone surrogate becomes U+FFFD
RECURSIVE TextEncode(_)
TextEncode(value) ==
    IF value = <<>> THEN <<>>
    ELSE LET u == Head(value)
         IN IF u < 128 THEN <<u>> \o TextEncode(Tail(value))
            ELSE IF u < 2048
            THEN <<192 + (u \div 64), 128 + (u % 64)>> \o TextEncode(Tail(value))
            ELSE IF IsHigh(u) /\ Len(value) > 1 /\ IsLow(value[2])
            THEN LET cp == 65536 + (u - 55296) * 1024 + (value[2] - 56320)
                 IN <<240 + (cp \div 262144), 128 + ((cp \div 4096) % 64),
                      128 + ((cp \div 64) % 64), 128 + (cp % 64)>>
                    \o TextEncode(Tail(Tail(value)))
            ELSE IF IsHigh(u) \/ IsLow(u) THEN <<239, 191, 189>> \o TextEncode(Tail(value))
            ELSE <<224 + (u \div 4096), 128 + ((u \div 64) % 64), 128 + (u % 64)>>
                 \o TextEncode(Tail(value))
\* new TextDecoder().decode(bytes), for the bytes TextEncode leaves
RECURSIVE TextDecode(_)
TextDecode(bytes) ==
    IF bytes = <<>> THEN <<>>
    ELSE LET b == Head(bytes)
         IN IF b < 128 THEN <<b>> \o TextDecode(Tail(bytes))
            ELSE IF b < 224
            THEN <<(b - 192) * 64 + (bytes[2] - 128)>> \o TextDecode(SubSeq(bytes, 3, Len(bytes)))
            ELSE IF b < 240
            THEN <<(b - 224) * 4096 + (bytes[2] - 128) * 64 + (bytes[3] - 128)>>
                 \o TextDecode(SubSeq(bytes, 4, Len(bytes)))
            ELSE LET cp == (b - 240) * 262144 + (bytes[2] - 128) * 4096
                           + (bytes[3] - 128) * 64 + (bytes[4] - 128) - 65536
                 IN <<55296 + (cp \div 1024), 56320 + (cp % 1024)>>
                    \o TextDecode(SubSeq(bytes, 5, Len(bytes)))

\* Storage.setItem(key, value) and Storage.getItem(key)
setItem(st, key, value) == MapSet(st, key, TextEncode(value))
getItem(st, key) ==
    IF MapHas(st, key) THEN [string |-> TRUE, data |-> TextDecode(MapGet(st, key))]
    ELSE [string |-> FALSE, data |-> <<>>]

\* WebStorageStore.set(key, data) and WebStorageStore.get(key)
StoreSet(st, key, data) == setItem(st, toString(key), decodeRaw(data))
StoreGet(st, key) ==
    LET data == getItem(st, toString(key))
    IN IF ~data.string THEN [found |-> FALSE, data |-> <<>>]
       ELSE [found |-> TRUE, data |-> encodeRaw(data.data)]

\* the keys used, and the bytes written: 0x00, 0xD8 (with 0x00 the code unit
\* U+D800, a surrogate) and 0xFF
StoreKeys == {1, 10}
StoreBytes == {0, 216, 255}
StoreData == UNION {[1..n -> StoreBytes] : n \in 0..MaxBytes}

DoStoreSet(key, data) ==
    /\ storage' = StoreSet(storage, key, data)
    /\ last' = [op |-> "set", key |-> key, data |-> data, err |-> "none",
                written |-> last.written \cup {key}]
    /\ UNCHANGED <<heap, sinks, _handles, index, nops, calls, children>>
DoStoreGet(key) ==
    /\ last' = [op |-> "get", key |-> key, found |-> StoreGet(storage, key).found,
                data |-> StoreGet(storage, key).data, err |-> "none",
                written |-> last.written]
    /\ UNCHANGED <<heap, sinks, _handles, index, nops, storage, calls, children>>

\* new WebStorageStore(storage) on an empty Storage
InitStorage ==
    /\ heap = <<DirectoryHandle(<<>>)>>
    /\ sinks = <<>>
    /\ _handles = (<<Sep>> :> root)
    /\ index = <<[key |-> <<Sep>>, value |-> Inode("S_IFDIR", 0)]>>
    /\ nops = 0
    /\ storage = <<>>
    /\ calls = <<>>
    /\ children = <<>>
    /\ last = [op |-> "init", written |-> {}]

NextStorage ==
    \/ \E key \in StoreKeys, data \in StoreData : DoStoreSet(key, data)
    \/ \E key \in StoreKeys : DoStoreGet(key)

SpecStorage == InitStorage /\ [][NextStorage]_vars

C24_WriteWithoutDataFails ==
    [][(Commanded("write") /\ "data" \notin DOMAIN last'.chunk)
       => /\ last'.err = "SyntaxError"
          /\ sinks'[last'.sid].position = sinks[last'.sid].position
          /\ sinks'[last'.sid].file = sinks[last'.sid].file]_vars

\* C25 (as claimed): a write command whose position is negative or no
\* integer fails with SyntaxError and leaves the working buffer and the
\* cursor as they were
C25_WriteAtBadPositionFails ==
    [][(/\ Commanded("write") /\ "position" \in DOMAIN last'.chunk
        /\ ~IsPosition(last'.chunk, "position"))
       => /\ last'.err = "SyntaxError"
          /\ sinks'[last'.sid].file = sinks[last'.sid].file
          /\ sinks'[last'.sid].position = sinks[last'.sid].position]_vars

\* ------------------------------------ write sessions and removal of their file
\* the sessions on the file a, interleaved with removeEntry on its parent
NextSinkTree ==
    \/ NextSink
    \/ \E name \in PathNames, recursive \in BOOLEAN : DoRemoveEntry(root, name, recursive)

SpecSinkTree == InitSink /\ [][NextSinkTree]_vars

\* C26 (as claimed): once removeEntry has removed the file of an open
\* session, a write and the close of that session fail with NotFoundError,
\* and the content of the removed handle stays what it was
C26_RemovedFileFailsSession ==
    [][(/\ last.op = "removeEntry" /\ last.err = "none"
        /\ last'.op \in {"write", "close"}
        /\ sinks[last'.sid].state = "writable"
        /\ sinks[last'.sid].handle = last.entry)
       => /\ last'.err = "NotFoundError"
          /\ heap'[last.entry].file = heap[last.entry].file]_vars

\* ------------------------------------------- the resolver that walks a path
\* getHandle(path, syscall) of the adapter that keeps no index: the cache it
\* leaves, the error it throws and the handle it returns
RECURSIVE getHandleParts(_, _, _, _, _)
getHandleParts(hp, cache, walked, parts, path) ==
    IF parts = <<>>
    THEN [_handles |-> cache, err |-> "none",
          handle |-> IF path \in DOMAIN cache THEN cache[path] ELSE 0]
    ELSE IF walked \notin DOMAIN cache
    THEN [_handles |-> cache, err |-> "ENOENT", handle |-> 0]
    ELSE IF hp[cache[walked]].kind # "directory"
    THEN [_handles |-> cache, err |-> "ENOTDIR", handle |-> 0]
    ELSE LET handle == cache[walked]
             part == Head(parts)
             child == getDirectoryHandle(hp, handle, part, FALSE)
         IN IF child.err = "none"
            THEN getHandleParts(hp, (join(walked, part) :> child.handle) @@ cache,
                                join(walked, part), Tail(parts), path)
            ELSE IF child.err = "TypeMismatchError"
            THEN LET file == getFileHandle(hp, handle, part, FALSE)
                 IN IF file.err = "none"
                    THEN [_handles |-> cache, err |-> "none", handle |-> file.handle]
                    ELSE [_handles |-> cache, err |-> convertException(file.err),
                          handle |-> 0]
            ELSE IF child.err = "TypeError"
            THEN [_handles |-> cache, err |-> "ENOENT", handle |-> 0]
            ELSE [_handles |-> cache, err |-> convertException(child.err), handle |-> 0]

getHandle(hp, cache, path) ==
    IF path \in DOMAIN cache
    THEN [_handles |-> cache, err |-> "none", handle |-> cache[path]]
    ELSE getHandleParts(hp, cache, <<Sep>>, Segments(path), path)

DoResolve(path) ==
    /\ nops < MaxOps
    /\ nops' = nops + 1
    /\ LET r == getHandle(heap, _handles, path)
       IN /\ _handles' = r._handles
          /\ last' = [op |-> "getHandle", path |-> path, err |-> r.err,
                      handle |-> r.handle]
    /\ UNCHANGED <<heap, sinks, index, storage, calls, children>>

\* the resolver, interleaved with get-or-create calls on the directory handles
NextResolver ==
    \/ \E path \in Paths : DoResolve(path)
    \/ \E dir \in 1..MaxHandles, kind \in {"file", "directory"}, name \in PathNames,
          create \in BOOLEAN : DoGetHandle(dir, kind, name, create)

SpecResolver == InitTree /\ [][NextResolver]_vars

\* what walking the names of a path from a directory of the tree leads to
RECURSIVE Resolution(_, _, _)
Resolution(hp, h, names) ==
    IF names = <<>> THEN [err |-> "none", handle |-> h]
    ELSE IF ~MapHas(hp[h]._data, Head(names)) THEN [err |-> "ENOENT", handle |-> 0]
    ELSE LET child == MapGet(hp[h]._data, Head(names))
         IN IF Tail(names) # <<>> /\ hp[child].kind = "file"
            THEN [err |-> "ENOTDIR", handle |-> 0]
            ELSE Resolution(hp, child, Tail(names))
\* the paths on the way to a path, the path included
OnTheWay(q, path) == q = path \/ q = <<Sep>> \/ StartsWith(path, q \o <<Sep>>)

\* C27 (as claimed): on a cache miss the resolver fails ENOENT at a missing
\* segment and ENOTDIR at a non-final segment that is a file, and otherwise
\* returns the handle of the full path, with every directory on the way
\* cached at its path
C27_ResolverWalk ==
    [][(last'.op = "getHandle" /\ last'.path \notin DOMAIN _handles)
       => LET e == Resolution(heap, root, Segments(last'.path))
          IN /\ last'.err = e.err
             /\ e.err = "none"
                => /\ last'.handle = e.handle
                   /\ \A q \in Paths :
                         (OnTheWay(q, last'.path) /\ Attached(heap, q) # 0
                          /\ heap[Attached(heap, q)].kind = "directory")
                         => q \in DOMAIN _handles' /\ _handles'[q] = Attached(heap, q)]_vars

\* --------------------------------------------- rename after earlier removals
\* the store WebAccess.create({ handle }) leaves on the empty root
NewStore ==
    [heap |-> <<DirectoryHandle(<<>>)>>,
     _handles |-> (<<Sep>> :> root),
     index |-> <<[key |-> <<Sep>>, value |-> Inode("S_IFDIR", 0)]>>]
\* the stores the adapter is in after mkdir(dir), mkdir or createFile of an
\* entry of dir, and unlink(dir)
Unlinked ==
    {unlink(mkdir(mkdir(NewStore, join(<<Sep>>, d)).st, join(join(<<Sep>>, d), f)).st,
            join(<<Sep>>, d)).st : d \in PathNames, f \in PathNames}
    \cup
    {unlink(createFile(mkdir(NewStore, join(<<Sep>>, d)).st, join(join(<<Sep>>, d), f)).st,
            join(<<Sep>>, d)).st : d \in PathNames, f \in PathNames}

InitRename ==
    /\ \E st \in Unlinked : heap = st.heap /\ _handles = st._handles /\ index = st.index
    /\ sinks = <<>>
    /\ nops = 0
    /\ storage = <<>>
    /\ calls = <<>>
    /\ children = <<>>
    /\ last = [op |-> "init"]

NextRename ==
    \/ \E path \in Paths : DoCreateFile(path)
    \/ \E path \in Paths : DoMkdir(path)
    \/ \E oldPath \in Paths, newPath \in Paths : DoRename(oldPath, newPath)

SpecRename == InitRename /\ [][NextRename]_vars

\* rename(P, Q) of a directory gets as far as renaming the children of P, and
\* the rename of one of them fails: the error of that child
ChildError(st, P, Q) ==
    IF P = Q \/ StartsWith(Q, P \o <<Sep>>) \/ get(st, "null", P).err # "none"
    THEN "none"
    ELSE IF st.heap[get(st, "null", P).handle].kind # "directory"
            \/ readdir(st, P).err # "none" \/ stat(st, P).err # "none"
            \/ mkdir(st, Q).err # "none"
    THEN "none"
    ELSE renameEach(mkdir(st, Q).st, readdir(st, P).entries, P, Q).err

\* C28 (as claimed): when the rename of a child fails during a directory
\* rename, the call fails with the error of that child, the directory made
\* at the new path stays, no name is in the tree or in the index both under
\* the old and under the new directory, and every path the handle cache or
\* the index holds leads to a handle in the tree
C28_FailedRenameState ==
    [][(last'.op = "rename" /\ ChildError(Store, last'.path, last'.newPath) # "none")
       => /\ last'.err = ChildError(Store, last'.path, last'.newPath)
          /\ Attached(heap', last'.newPath) # 0
          /\ \A f \in PathNames :
                /\ ~(/\ Attached(heap', join(last'.path, f)) # 0
                     /\ Attached(heap', join(last'.newPath, f)) # 0)
                /\ ~(/\ MapHas(index', join(last'.path, f))
                     /\ MapHas(index', join(last'.newPath, f)))
          /\ \A path \in (DOMAIN _handles') \cup KeySet(index') :
                Attached(heap', path) # 0]_vars

\* ------------------------------------------------------------ claims: stat
\* the handle the adapter has for a path: the cached one, else the one the
\* tree holds there (0: none)
HandleAt(st, path) ==
    IF path \in DOMAIN st._handles THEN st._handles[path] ELSE Attached(st.heap, path)

\* C29 (as claimed): stat of a path that has a handle and no index entry
\* succeeds, inserts an entry made from the handle (a file's size, a
\* directory's defaults) and returns it; stat of a path with neither an
\* entry nor a handle fails ENOENT
C29_StatSelfHeals ==
    [][(last'.op = "stat" /\ ~MapHas(index, last'.path))
       => LET h == HandleAt(Store, last'.path)
          IN /\ h = 0 => last'.err = "ENOENT"
             /\ h # 0
                => /\ last'.err = "none"
                   /\ MapHas(index', last'.path)
                   /\ last'.inode = MapGet(index', last'.path)
                   /\ last'.inode = IF heap[h].kind = "file"
                                    THEN Inode("S_IFREG", Len(heap[h].file))
                                    ELSE Inode("S_IFDIR", 0)]_vars

\* -------------------------------------------------------------------- sync
\* inode.update(stats): the fields stats has are copied into the inode
update(inode, stats) ==
    IF "size" \in stats.fields THEN [inode EXCEPT !.size = stats.size] ELSE inode

\* sync(path, data, stats); data is Null when the caller passes none, and a
\* new Inode() has mode 0 and size 0
sync(st, path, data, stats) ==
    LET inode == IF MapHas(st.index, path) THEN MapGet(st.index, path) ELSE Inode("0", 0)
        st1 == [st EXCEPT !.index = MapSet(@, path, update(inode, stats))]
    IN IF data = Null THEN Ok(st1)
       ELSE LET handle == get(st1, "file", path)
            IN IF handle.err # "none" THEN Fail(st1, handle.err)
               ELSE LET written == WriteThrough(st1.heap, handle.handle, TRUE, 0, data)
                    IN IF written.err # "none" THEN Fail(st1, written.err)
                       ELSE Ok([st1 EXCEPT !.heap = written.heap])

\* the stats a caller passes: no field, or a size
StatsGiven == {[fields |-> {}]} \cup {[fields |-> {"size"}, size |-> n] : n \in 0..MaxPayload}

DoSync(path, data, stats) ==
    /\ Step /\ Install(sync(Store, path, data, stats))
    /\ last' = [op |-> "sync", path |-> path, data |-> data, stats |-> stats,
                err |-> sync(Store, path, data, stats).err]

\* the operations on files: made, written, synced and looked at
NextSync ==
    \/ \E path \in Paths : DoCreateFile(path)
    \/ \E path \in Paths : DoMkdir(path)
    \/ \E path \in Paths, buffer \in Payloads, offset \in WriteOffsets :
          DoWrite(path, buffer, offset)
    \/ \E path \in Paths, data \in Payloads \cup {Null}, stats \in StatsGiven :
          DoSync(path, data, stats)
    \/ \E path \in Paths : DoStat(path)

SpecSync == InitFS /\ [][NextSync]_vars

\* C30 (as claimed): sync(path, data, stats) with data leaves what merging
\* stats into the index entry of path and then write(path, data, 0) leave:
\* the same error, the same content of every handle and the same size in the
\* index entry; on a path without index entry it fails ENOENT and the path
\* has no index entry afterwards
C30_SyncIsMergeThenWrite ==
    [][(last'.op = "sync" /\ last'.data # Null)
       => IF ~MapHas(index, last'.path)
          THEN last'.err = "ENOENT" /\ ~MapHas(index', last'.path)
          ELSE LET merged == [Store EXCEPT !.index =
                                MapSet(@, last'.path,
                                       update(MapGet(index, last'.path), last'.stats))]
                   w == write(merged, last'.path, last'.data, 0)
               IN /\ last'.err = w.err
                  /\ heap' = w.st.heap
                  /\ MapGet(index', last'.path).size
                        = MapGet(w.st.index, last'.path).size]_vars

\* --------------------------------------------------- readdir past the index
\* readdir(path) with disableIndexOptimizations: the keys of the handle
readdirBypass(st, path) ==
    LET handle == get(st, "directory", path)
    IN IF handle.err # "none" THEN [err |-> handle.err, entries |-> <<>>]
       ELSE [err |-> "none", entries |-> MapKeys(st.heap[handle.handle]._data)]

\* the adapter's operations that change the store, each call succeeding
NextFSOk ==
    \/ \E path \in Paths : DoCreateFile(path) /\ last'.err = "none"
    \/ \E path \in Paths : DoMkdir(path) /\ last'.err = "none"
    \/ \E path \in Paths : DoUnlink(path) /\ last'.err = "none"
    \/ \E path \in Paths : DoRmdir(path) /\ last'.err = "none"
    \/ \E oldPath \in Paths, newPath \in Paths :
          DoRename(oldPath, newPath) /\ last'.err = "none"
    \/ \E path \in Paths, buffer \in Payloads, offset \in WriteOffsets :
          DoWrite(path, buffer, offset) /\ last'.err = "none"

SpecFSOk == InitFS /\ [][NextFSOk]_vars

\* C31 (as claimed): after successful operations only, readdir of a path the
\* index holds as a directory returns the same names from the index as from
\* the children of the handle
C31_ReaddirModesAgree ==
    \A path \in Paths :
        IndexedAs(index, path, "S_IFDIR")
        => /\ readdir(Store, path).err = "none"
           /\ readdirBypass(Store, path).err = "none"
           /\ Range(readdir(Store, path).entries)
                 = Range(readdirBypass(Store, path).entries)

\* ------------------------------------------------- DirectoryHandle.resolve
\* handle.isSameEntry(other): the same object, else false
isSameEntry(h, other) == h = other

\* the loop of resolve over its stack of [entry, path]: the top is popped, its
\* entries are compared with the descendant in order and its directories
\* pushed
RECURSIVE resolveStack(_, _, _)
resolveStack(hp, stack, possibleDescendant) ==
    IF stack = <<>> THEN [found |-> FALSE, path |-> <<>>]
    ELSE LET current == stack[Len(stack)].entry
             path == stack[Len(stack)].path
             entries == hp[current]._data
             hits == {i \in 1..Len(entries) : entries[i].value = possibleDescendant}
             dirs == SelectSeq(entries, LAMBDA e : hp[e.value].kind = "directory")
         IN IF hits # {}
            THEN [found |-> TRUE,
                  path |-> Append(path, entries[CHOOSE i \in hits :
                                                  \A j \in hits : i <= j].key)]
            ELSE resolveStack(hp,
                              SubSeq(stack, 1, Len(stack) - 1)
                              \o [i \in 1..Len(dirs) |->
                                    [entry |-> dirs[i].value,
                                     path |-> Append(path, dirs[i].key)]],
                              possibleDescendant)

\* dir.resolve(possibleDescendant): found is FALSE for null
resolve(hp, dir, possibleDescendant) ==
    IF isSameEntry(possibleDescendant, dir) THEN [found |-> TRUE, path |-> <<>>]
    ELSE resolveStack(hp, <<[entry |-> dir, path |-> <<>>]>>, possibleDescendant)

DoResolveTarget(dir, target) ==
    /\ dir \in Directories(heap)
    /\ target \in 1..Len(heap)
    /\ nops < MaxOps
    /\ nops' = nops + 1
    /\ last' = [op |-> "resolve", dir |-> dir, target |-> target,
                found |-> resolve(heap, dir, target).found,
                path |-> resolve(heap, dir, target).path]
    /\ UNCHANGED <<heap, sinks, _handles, index, storage, calls, children>>

\* get-or-create and removeEntry on the directory handles, and resolve
NextResolve ==
    \/ \E dir \in 1..MaxHandles, kind \in {"file", "directory"}, name \in PathNames,
          create \in BOOLEAN : DoGetHandle(dir, kind, name, create)
    \/ \E dir \in 1..MaxHandles, name \in PathNames, recursive \in BOOLEAN :
          DoRemoveEntry(dir, name, recursive)
    \/ \E dir \in 1..MaxHandles, target \in 1..MaxHandles : DoResolveTarget(dir, target)

SpecResolve == InitTree /\ [][NextResolve]_vars

\* the names of a path lead from a directory to a handle
RECURSIVE LeadsTo(_, _, _, _)
LeadsTo(hp, h, names, target) ==
    IF names = <<>> THEN h = target
    ELSE /\ hp[h].kind = "directory"
         /\ MapHas(hp[h]._data, Head(names))
         /\ LeadsTo(hp, MapGet(hp[h]._data, Head(names)), Tail(names), target)

\* C32 (as claimed): dir.resolve(target) returns [] for the directory itself,
\* names that lead from the directory to the target when the target is below
\* it, and null when it is not below it; it returns null for a target that
\* removeEntry has just removed
C32_ResolvePath ==
    [][(last'.op = "resolve")
       => LET dir == last'.dir
              target == last'.target
          IN /\ target = dir => (last'.found /\ last'.path = <<>>)
             /\ (target # dir /\ target \in Below(heap, {dir}, Len(heap)))
                => (last'.found /\ last'.path # <<>>
                    /\ LeadsTo(heap, dir, last'.path, target))
             /\ target \notin Below(heap, {dir}, Len(heap)) => ~last'.found
             /\ (/\ last.op = "removeEntry" /\ last.err = "none"
                 /\ last.entry = target)
                => ~last'.found]_vars

\* ------------------------------------------- two write sessions on one file
\* the chunks the sessions are given: payloads, and well-formed seeks and
\* truncates
SessionChunks ==
    [type : {"raw"}, data : Payloads]
    \cup [type : {"seek"}, position : 0..MaxPos]
    \cup [type : {"truncate"}, size : 0..MaxPos]

NextWriters ==
    \/ \E keep \in BOOLEAN : CreateWritable(2, keep, MaxWriters)
    \/ \E sid \in 1..MaxWriters, chunk \in SessionChunks : DoStreamWrite(sid, chunk)
    \/ \E sid \in 1..MaxWriters : DoStreamClose(sid)

SpecWriters == InitSink /\ [][NextWriters]_vars

renameCall(st, oldPath, newPath) ==
    [op |-> "rename", pc |-> "getFile", oldPath |-> oldPath, newPath |-> newPath,
     oldFile |-> st.heap[get(st, "null", oldPath).handle].file,
     newFile |-> 0, writable |-> Null,
     before |-> IF get(st, "file", newPath).err = "none"
                THEN st.heap[get(st, "file", newPath).handle].file ELSE Null]

renameResumeMutCacheEarly(st, c) ==
    IF c.pc = "getFile"
    THEN LET destFolder == get(st, "directory", dirname(c.newPath))
         IN IF destFolder.err # "none" THEN [st |-> st, call |-> c, err |-> destFolder.err]
            ELSE LET newFile == getFileHandle(st.heap, destFolder.handle,
                                              basename(c.newPath), TRUE)
                 IN IF newFile.err # "none"
                    THEN [st |-> st, call |-> c, err |-> "EISDIR"]
                    ELSE [st |-> [st EXCEPT !.heap = newFile.heap,
                                            !._handles = (c.newPath :> newFile.handle) @@ @],
                          call |-> [c EXCEPT !.pc = "getFileHandle",
                                             !.newFile = newFile.handle],
                          err |-> "pending"]
    ELSE IF c.pc = "getFileHandle"
    THEN [st |-> st,
          call |-> [c EXCEPT !.pc = "createWritable",
                             !.writable = Sink(st.heap, c.newFile, FALSE)],
          err |-> "pending"]
    ELSE IF c.pc = "createWritable"
    THEN [st |-> st,
          call |-> [c EXCEPT !.pc = "write",
                             !.writable = SinkWrite(st.heap, c.writable,
                                                    [type |-> "raw", data |-> c.oldFile]).sink],
          err |-> "pending"]
    ELSE IF c.pc = "write"
    THEN [st |-> [st EXCEPT !.heap = SinkClose(st.heap, c.writable)],
          call |-> [c EXCEPT !.pc = "close"], err |-> "pending"]
    ELSE IF c.pc = "close"
    THEN LET r == removeEntry(st.heap, get(st, "directory", dirname(c.oldPath)).handle,
                              basename(c.oldPath), TRUE)
         IN IF get(st, "directory", dirname(c.oldPath)).err # "none"
            THEN [st |-> st, call |-> c, err |-> get(st, "directory", dirname(c.oldPath)).err]
            ELSE IF r.err # "none"
            THEN [st |-> st, call |-> c, err |-> convertException(r.err)]
            ELSE [st |-> [st EXCEPT !.heap = r.heap],
                  call |-> [c EXCEPT !.pc = "removeEntry"], err |-> "pending"]
    ELSE IF c.pc = "removeEntry"
    THEN [st |-> [st EXCEPT !.index = MapDelete(@, c.oldPath)],
          call |-> [c EXCEPT !.pc = "unlink"], err |-> "pending"]
    ELSE [st |-> [st EXCEPT !._handles = (c.newPath :> c.newFile) @@ @],
          call |-> c, err |-> "none"]

\* the call resumed after the await it is suspended at, up to the next await
\* or to its end: the store it leaves, its locals, and "pending", or the error
\* it ends with ("none": it returns)
renameResume(st, c) ==
    IF c.pc = "getFile"
    THEN LET destFolder == get(st, "directory", dirname(c.newPath))
         IN IF destFolder.err # "none" THEN [st |-> st, call |-> c, err |-> destFolder.err]
            ELSE LET newFile == getFileHandle(st.heap, destFolder.handle,
                                              basename(c.newPath), TRUE)
                 IN IF newFile.err = "TypeMismatchError"
                    THEN [st |-> st, call |-> c, err |-> "EISDIR"]
                    ELSE IF newFile.err # "none"
                    THEN [st |-> st, call |-> c, err |-> convertException(newFile.err)]
                    ELSE [st |-> [st EXCEPT !.heap = newFile.heap],
                          call |-> [c EXCEPT !.pc = "getFileHandle",
                                             !.newFile = newFile.handle],
                          err |-> "pending"]
    ELSE IF c.pc = "getFileHandle"
    THEN IF st.heap[c.newFile].file = Null
         THEN [st |-> st, call |-> c, err |-> "NotFoundError"]
         ELSE [st |-> st,
               call |-> [c EXCEPT !.pc = "createWritable",
                                  !.writable = Sink(st.heap, c.newFile, FALSE)],
               err |-> "pending"]
    ELSE IF c.pc = "createWritable"
    THEN LET written == SinkWrite(st.heap, c.writable, [type |-> "raw", data |-> c.oldFile])
         IN IF written.err # "none" THEN [st |-> st, call |-> c, err |-> written.err]
            ELSE [st |-> st, call |-> [c EXCEPT !.pc = "write", !.writable = written.sink],
                  err |-> "pending"]
    ELSE IF c.pc = "write"
    THEN IF st.heap[c.newFile].file = Null
         THEN [st |-> st, call |-> c, err |-> "NotFoundError"]
         ELSE [st |-> [st EXCEPT !.heap = SinkClose(st.heap, c.writable)],
               call |-> [c EXCEPT !.pc = "close"], err |-> "pending"]
    ELSE IF c.pc = "close"
    THEN IF c.oldPath = <<Sep>> THEN [st |-> st, call |-> c, err |-> "EBUSY"]
         ELSE LET handle == get(st, "directory", dirname(c.oldPath))
              IN IF handle.err # "none" THEN [st |-> st, call |-> c, err |-> handle.err]
                 ELSE LET r == removeEntry(st.heap, handle.handle, basename(c.oldPath), TRUE)
                      IN IF r.err # "none"
                         THEN [st |-> st, call |-> c, err |-> convertException(r.err)]
                         ELSE [st |-> [st EXCEPT !.heap = r.heap],
                               call |-> [c EXCEPT !.pc = "removeEntry"],
                               err |-> "pending"]
    ELSE IF c.pc = "removeEntry"
    THEN [st |-> [st EXCEPT !.index = MapDelete(@, c.oldPath)],
          call |-> [c EXCEPT !.pc = "unlink"], err |-> "pending"]
    ELSE [st |-> [st EXCEPT !._handles = (c.newPath :> c.newFile) @@ @],
          call |-> c, err |-> "none"]

\* rename(oldPath, newPath) is called on a file, as the last operation issued
DoRenameCall(oldPath, newPath) ==
    /\ calls = <<>> /\ nops <= MaxOps /\ last.op # "rename"
    /\ nops' = MaxOps
    /\ oldPath # newPath /\ ~StartsWith(newPath, oldPath \o <<Sep>>)
    /\ get(Store, "null", oldPath).err = "none"
    /\ heap[get(Store, "null", oldPath).handle].kind = "file"
    /\ calls' = <<renameCall(Store, oldPath, newPath)>>
    /\ last' = [op |-> "renameCall", path |-> oldPath, newPath |-> newPath]
    /\ UNCHANGED <<heap, sinks, _handles, index, storage, children>>

\* the call in flight goes on to its next await, or ends
DoRenameResume ==
    /\ calls # <<>>
    /\ LET r == renameResume(Store, calls[1])
       IN /\ Install(r)
          /\ calls' = IF r.err = "pending" THEN <<r.call>> ELSE <<>>
          /\ last' = [op |-> "rename", path |-> calls[1].oldPath,
                      newPath |-> calls[1].newPath, pc |-> calls[1].pc, err |-> r.err]
    /\ UNCHANGED <<sinks, nops, storage, children>>

\* read(path, buffer, 0, end) while the call is in flight, for the size the
\* reader finds at the path
DoReadDuring(path) ==
    /\ calls # <<>>
    /\ path \in {calls[1].oldPath, calls[1].newPath}
    /\ LET end == IF get(Store, "file", path).err = "none"
                  THEN Len(heap[get(Store, "file", path).handle].file) ELSE MaxPayload
           r == read(Store, path, [i \in 1..end |-> 9], 0, end)
       IN last' = [op |-> "read", path |-> path, offset |-> 0, end |-> end,
                   err |-> r.err, buffer |-> r.buffer]
    /\ UNCHANGED <<heap, sinks, _handles, index, nops, storage, calls, children>>

\* files are made and written, then one is renamed with nothing but reads
\* of its two paths in between
NextRace ==
    \/ \E path \in Paths : calls = <<>> /\ DoCreateFile(path)
    \/ \E path \in Paths, buffer \in Payloads : calls = <<>> /\ DoWrite(path, buffer, 0)
    \/ \E oldPath \in Paths, newPath \in Paths : DoRenameCall(oldPath, newPath)
    \/ DoRenameResume
    \/ \E path \in Paths : DoReadDuring(path)

SpecRace == InitFS /\ [][NextRace]_vars

\* C34: a read of the old or the new path while rename is suspended fails
\* with an errno, or returns all of the content the old path had when the
\* call was made, or, at the new path, all of the content that path had then
C34_ReadSeesWholeContent ==
    [][(/\ last'.op = "read" /\ calls # <<>>
        /\ last'.path \in {calls[1].oldPath, calls[1].newPath})
       => \/ last'.err \in Errnos
          \/ /\ last'.err = "none"
             /\ \/ last'.buffer = calls[1].oldFile
                \/ /\ last'.path = calls[1].newPath
                   /\ calls[1].before # Null
                   /\ last'.buffer = calls[1].before]_vars

\* C34 witness: the content is committed to the new path, which is not yet
\* cached, and a read of the new path fails
C34_Witness_ReadBeforeCached ==
    /\ calls # <<>>
    /\ calls[1].pc \in {"close", "removeEntry", "unlink"}
    /\ Len(calls[1].oldFile) > 0
    /\ last.op = "read" /\ last.path = calls[1].newPath /\ last.err = "ENODATA"

\* ------------------------------------------- entries(), keys() and values()
\* what the generator of a sequence yields for an entry of _data
Yield(seq, entry) ==
    IF seq = "keys" THEN <<entry.key>>
    ELSE IF seq = "values" THEN <<entry.value>>
    ELSE <<entry.key, entry.value>>

\* dir.entries(), dir.keys() or dir.values(): an async generator, whose body
\* has not started; present is what _data holds at the call
DoIterate(dir, seq) ==
    /\ calls = <<>>
    /\ children = <<>>
    /\ dir \in Directories(heap)
    /\ calls' = <<[op |-> seq, dir |-> dir, index |-> 0, yielded |-> <<>>,
                   present |-> [i \in 1..Len(heap[dir]._data) |->
                                  Yield(seq, heap[dir]._data[i])]]>>
    /\ last' = [op |-> "iterate", seq |-> seq, dir |-> dir]
    /\ UNCHANGED <<heap, sinks, _handles, index, nops, storage, children>>

\* next() on the generator: the loop over this._data goes on from the
\* position of the Map iterator, which reads the Map as it is now
DoNext ==
    /\ calls # <<>>
    /\ LET c == calls[1]
           _data == heap[c.dir]._data
       IN IF c.index < Len(_data)
          THEN /\ calls' = <<[c EXCEPT !.index = @ + 1,
                                       !.yielded = Append(@, Yield(c.op, _data[c.index + 1]))]>>
               /\ last' = [op |-> "next", seq |-> c.op, dir |-> c.dir, done |-> FALSE,
                           value |-> Yield(c.op, _data[c.index + 1])]
          ELSE /\ calls' = <<>>
               /\ last' = [op |-> "next", seq |-> c.op, dir |-> c.dir, done |-> TRUE,
                           present |-> c.present, yielded |-> c.yielded]
    /\ UNCHANGED <<heap, sinks, _handles, index, nops, storage, children>>

\* dir.removeEntry(name, { recursive }) while a generator may be suspended:
\* _data.clear() empties the Map under its iterator, which goes on at the
\* entries set after that
DoRemoveEntryUnder(dir, name, recursive) ==
    /\ dir \in Directories(heap)
    /\ nops < MaxOps
    /\ nops' = nops + 1
    /\ LET r == removeEntry(heap, dir, name, recursive)
       IN /\ heap' = r.heap
          /\ calls' = [i \in 1..Len(calls) |->
                         IF r.heap[calls[i].dir]._data = <<>>
                         THEN [calls[i] EXCEPT !.index = 0] ELSE calls[i]]
          /\ last' = [op |-> "removeEntry", dir |-> dir, name |-> name,
                      recursive |-> recursive, err |-> r.err, dropped |-> r.dropped,
                      entry |-> IF NameError(name) = "none" /\ MapHas(heap[dir]._data, name)
                                THEN MapGet(heap[dir]._data, name) ELSE 0]
    /\ UNCHANGED <<sinks, _handles, index, storage, children>>

NextIter ==
    \/ \E dir \in 1..MaxHandles, kind \in {"file", "directory"}, name \in PathNames,
          create \in BOOLEAN : DoGetHandle(dir, kind, name, create)
    \/ \E dir \in 1..MaxHandles, name \in PathNames, recursive \in BOOLEAN :
          DoRemoveEntryUnder(dir, name, recursive)
    \/ \E dir \in 1..MaxHandles, seq \in {"entries", "keys", "values"} : DoIterate(dir, seq)
    \/ DoNext

SpecIter == InitTree /\ [][NextIter]_vars

\* C35 (as claimed): when a sequence of entries(), keys() or values()
\* finishes, it has yielded each child the directory had at the call, once,
\* and nothing else
C35_IterationIsSnapshot ==
    [][(last'.op = "next" /\ last'.done)
       => /\ Range(last'.yielded) = Range(last'.present)
          /\ Len(last'.yielded) = Len(last'.present)]_vars

\* ------------------------------------------------ claims: write at an offset
\* C36 (as claimed): a successful write(path, buffer, offset) with offset > 0
\* on a file of content C leaves the first min(offset, len(C)) bytes of C
\* where they were, and the bytes of C from offset + len(buffer) on as well
C36_WriteKeepsTheRest ==
    [][(/\ last'.op = "write" /\ last'.err = "none" /\ last'.offset > 0
        /\ last'.before # Null)
       => LET C == last'.before
              after == heap'[_handles[last'.path]].file
              kept == Min(last'.offset, Len(C))
              end == last'.offset + Len(last'.buffer)
          IN /\ Len(after) >= kept
             /\ SubSeq(after, 1, kept) = SubSeq(C, 1, kept)
             /\ Len(after) >= Len(C)
             /\ SubSeq(after, end + 1, Len(C)) = SubSeq(C, end + 1, Len(C))]_vars

\* --------------------------------------------- createFile, await by await
\* new Inode({ ...options, mode: mode | S_IFREG }), options holding a uid
InodeOf(options) == [uid |-> options.uid] @@ Inode("S_IFREG", 0)

\* createFile(path, flag, mode, options) up to its await: the store it
\* leaves and the call, suspended at getFileHandle or ended by a throw
createFileCall(st, path, options) ==
    LET handle == get(st, "directory", dirname(path))
        c == [op |-> "createFile", path |-> path, options |-> options, file |-> 0,
              inode |-> Null, pc |-> "returned", err |-> "none"]
    IN IF handle.err # "none" THEN [st |-> st, call |-> [c EXCEPT !.err = handle.err]]
       ELSE IF MapHas(st.index, path) THEN [st |-> st, call |-> [c EXCEPT !.err = "EEXIST"]]
       ELSE LET file == getFileHandle(st.heap, handle.handle, basename(path), TRUE)
            IN [st |-> [st EXCEPT !.heap = file.heap],
                call |-> [c EXCEPT !.pc = "getFileHandle", !.file = file.handle,
                                   !.err = file.err]]

createFileResumeMutNoBypass(st, c) ==
    IF c.err # "none" THEN [st |-> st, call |-> [c EXCEPT !.pc = "returned"]]
    ELSE [st |-> [st EXCEPT !.index = MapSet(@, c.path, InodeOf(c.options)),
                            !._handles = (c.path :> c.file) @@ @],
          call |-> [c EXCEPT !.pc = "returned", !.inode = InodeOf(c.options)]]
\* the call resumed after its await: the rejection of getFileHandle is
\* thrown, or the entry the index has by now, else a new one, is set and
\* returned in the LazyFile
createFileResume(st, c) ==
    IF c.err # "none" THEN [st |-> st, call |-> [c EXCEPT !.pc = "returned"]]
    ELSE LET inode == IF MapHas(st.index, c.path) THEN MapGet(st.index, c.path)
                      ELSE InodeOf(c.options)
         IN [st |-> [st EXCEPT !.index = MapSet(@, c.path, inode),
                               !._handles = (c.path :> c.file) @@ @],
             call |-> [c EXCEPT !.pc = "returned", !.inode = inode]]

\* the options of the callers: the nth caller has uid n
DoCreateFileCall(path) ==
    /\ Len(calls) < MaxCallers
    /\ LET r == createFileCall(Store, path, [uid |-> Len(calls) + 1])
       IN /\ Install(r)
          /\ calls' = Append(calls, r.call)
          /\ last' = [op |-> "createFileCall", path |-> path, err |-> r.call.err]
    /\ UNCHANGED <<sinks, nops, storage, children>>

DoCreateFileResume(i) ==
    /\ i \in 1..Len(calls)
    /\ calls[i].pc = "getFileHandle"
    /\ LET r == createFileResume(Store, calls[i])
       IN /\ Install(r)
          /\ calls' = [calls EXCEPT ![i] = r.call]
          /\ last' = [op |-> "createFile", path |-> calls[i].path, err |-> r.call.err]
    /\ UNCHANGED <<sinks, nops, storage, children>>

\* directories are made under the root, and files created by calls that
\* interleave
NextCreate ==
    \/ \E name \in PathNames : DoMkdir(join(<<Sep>>, name))
    \/ \E path \in Paths : DoCreateFileCall(path)
    \/ \E i \in 1..MaxCallers : DoCreateFileResume(i)

SpecCreate == InitFS /\ [][NextCreate]_vars

\* C37: the createFile calls for one path that have returned hold the same
\* inode, which is the one entry the index has for the path, and their file
\* is the one handle the tree has at the path
C37_OneEntryForRacingCreates ==
    \A i \in 1..Len(calls), j \in 1..Len(calls) :
        (/\ calls[i].pc = "returned" /\ calls[i].err = "none"
         /\ calls[j].pc = "returned" /\ calls[j].err = "none"
         /\ calls[i].path = calls[j].path)
        => /\ calls[i].inode = calls[j].inode
           /\ MapGet(index, calls[i].path) = calls[i].inode
           /\ Cardinality({k \in 1..Len(index) : index[k].key = calls[i].path}) = 1
           /\ calls[i].file = calls[j].file
           /\ Attached(heap, calls[i].path) = calls[i].file
           /\ heap[calls[i].file].kind = "file"

\* C37 witness: two calls for one path were both suspended at the lookup, and
\* both have returned
C37_Witness_BothReturned ==
    /\ Len(calls) >= 2
    /\ calls[1].path = calls[2].path
    /\ calls[1].pc = "returned" /\ calls[1].err = "none"
    /\ calls[2].pc = "returned" /\ calls[2].err = "none"

\* ------------------------------------------------------------------- XMLFS
\* a node is [paths, nlink, textContent]: the parsed paths attribute, the
\* nlink attribute, and the text content parsed as a directory listing.
\* A sequence ch of nodes is root.children, in document order.

\* Array.prototype.indexOf, 1-based; 0 when x is absent
indexOf(seq, x) ==
    IF \E i \in 1..Len(seq) : seq[i] = x
    THEN CHOOSE i \in 1..Len(seq) : seq[i] = x /\ \A j \in 1..(i - 1) : seq[j] # x
    ELSE 0

\* Array.prototype.splice(i, 1), and Element.remove() on root.children
splice(seq, i) == SubSeq(seq, 1, i - 1) \o SubSeq(seq, i + 1, Len(seq))

\* document.createElement('file'): no attribute, no text
NewElement == [paths |-> <<>>, nlink |-> 0, textContent |-> <<>>]

\* XMLFS.get: the position of the first child whose paths include path, 0
\* where the code throws ENOENT
XMLFS_get(ch, path) ==
    IF \E i \in 1..Len(ch) : indexOf(ch[i].paths, path) # 0
    THEN CHOOSE i \in 1..Len(ch) :
             /\ indexOf(ch[i].paths, path) # 0
             /\ \A j \in 1..(i - 1) : indexOf(ch[j].paths, path) = 0
    ELSE 0

\* XMLFS.add(syscall, node, path): node is the element, at its position in ch
\* (0 for an element that is not a child of the root). The result is the
\* children, the element, and the error thrown
XMLFS_add(ch, node, at, path) ==
    LET node1 == [node EXCEPT !.paths = Append(node.paths, path),
                              !.nlink = Len(node.paths) + 1]
        ch1 == IF at # 0 THEN [ch EXCEPT ![at] = node1] ELSE ch
        parent == XMLFS_get(ch1, dirname(path))
    IN  IF path = <<Sep>> THEN [children |-> ch1, node |-> node1, err |-> "none"]
        ELSE IF parent = 0 THEN [children |-> ch1, node |-> node1, err |-> "ENOENT"]
        ELSE [children |-> [ch1 EXCEPT ![parent].textContent = Append(@, basename(path))],
              node |-> IF parent = at
                       THEN [node1 EXCEPT !.textContent = Append(@, basename(path))]
                       ELSE node1,
              err |-> "none"]

\* XMLFS.remove(syscall, node, path) for the child at position at, whose
\* paths include path. An element left without a path is removed from the
\* root and its attributes stay as they were
XMLFS_remove(ch, at, path) ==
    LET node == ch[at]
        paths == splice(node.paths, indexOf(node.paths, path))
        node1 == IF paths = <<>> THEN node
                 ELSE [node EXCEPT !.paths = paths, !.nlink = Len(paths)]
        ch1 == IF paths = <<>> THEN splice(ch, at) ELSE [ch EXCEPT ![at] = node1]
        at1 == IF paths = <<>> THEN 0 ELSE at
        parent == XMLFS_get(ch1, dirname(path))
        name == basename(path)
        listing == ch1[parent].textContent
        ch2 == IF indexOf(listing, name) = 0 THEN ch1
               ELSE [ch1 EXCEPT ![parent].textContent = splice(listing, indexOf(listing, name))]
    IN  IF path = <<Sep>> THEN [children |-> ch1, node |-> node1, at |-> at1, err |-> "none"]
        ELSE IF parent = 0
        THEN [children |-> ch1, node |-> node1, at |-> at1, err |-> "ENOENT"]
        ELSE [children |-> ch2, node |-> IF at1 = 0 THEN node1 ELSE ch2[at1],
              at |-> at1, err |-> "none"]

\* XMLFS.create: the stats it sets leave paths and nlink as add set them
XMLFS_create(ch, path) ==
    IF XMLFS_get(ch, path) # 0 THEN [children |-> ch, err |-> "EEXIST"]
    ELSE LET a == XMLFS_add(ch, NewElement, 0, path)
         IN  IF a.err # "none" THEN [children |-> a.children, err |-> a.err]
             ELSE [children |-> Append(a.children, a.node), err |-> "none"]

\* XMLFS.createFileSync and XMLFS.mkdirSync: the parent is looked up first;
\* the new element's listing is empty either way
XMLFS_createSync(ch, path) ==
    IF XMLFS_get(ch, dirname(path)) = 0 THEN [children |-> ch, err |-> "ENOENT"]
    ELSE XMLFS_create(ch, path)

XMLFS_linkSync(ch, target, link) ==
    IF XMLFS_get(ch, target) = 0 THEN [children |-> ch, err |-> "ENOENT"]
    ELSE LET a == XMLFS_add(ch, ch[XMLFS_get(ch, target)], XMLFS_get(ch, target), link)
         IN  [children |-> a.children, err |-> a.err]

XMLFS_renameSync(ch, oldPath, newPath) ==
    IF XMLFS_get(ch, oldPath) = 0 THEN [children |-> ch, err |-> "ENOENT"]
    ELSE LET r == XMLFS_remove(ch, XMLFS_get(ch, oldPath), oldPath)
             a == XMLFS_add(r.children, r.node, r.at, newPath)
         IN  IF r.err # "none" THEN [children |-> r.children, err |-> r.err]
             ELSE [children |-> a.children, err |-> a.err]

\* XMLFS.statSync: the nlink of the stats, or the error
XMLFS_statSync(ch, path) ==
    IF XMLFS_get(ch, path) = 0 THEN [err |-> "ENOENT", nlink |-> 0]
    ELSE [err |-> "none", nlink |-> ch[XMLFS_get(ch, path)].nlink]

\* XMLFS.readdirSync
XMLFS_readdirSync(ch, path) == ch[XMLFS_get(ch, path)].textContent

\* the file system over a root element that holds the directory "/": the
\* constructor's mkdirSync('/') ends in EEXIST, which it swallows
InitXML ==
    /\ heap = <<>>
    /\ sinks = <<>>
    /\ _handles = <<>>
    /\ index = <<>>
    /\ nops = 0
    /\ storage = <<>>
    /\ calls = <<>>
    /\ children = <<[paths |-> <<<<Sep>>>>, nlink |-> 1, textContent |-> <<>>]>>
    /\ last = [op |-> "init"]

XMLStep(r) ==
    /\ nops < MaxOps
    /\ nops' = nops + 1
    /\ children' = r.children
    /\ UNCHANGED <<heap, sinks, _handles, index, storage, calls>>

DoCreateFileSync(path) ==
    /\ XMLStep(XMLFS_createSync(children, path))
    /\ last' = [op |-> "createFileSync", path |-> path,
                err |-> XMLFS_createSync(children, path).err]

DoMkdirSync(path) ==
    /\ XMLStep(XMLFS_createSync(children, path))
    /\ last' = [op |-> "mkdirSync", path |-> path,
                err |-> XMLFS_createSync(children, path).err]

DoLinkSync(target, link) ==
    /\ XMLStep(XMLFS_linkSync(children, target, link))
    /\ last' = [op |-> "linkSync", path |-> link,
                err |-> XMLFS_linkSync(children, target, link).err]

DoRenameSync(oldPath, newPath) ==
    /\ XMLStep(XMLFS_renameSync(children, oldPath, newPath))
    /\ last' = [op |-> "renameSync", path |-> oldPath, newPath |-> newPath,
                err |-> XMLFS_renameSync(children, oldPath, newPath).err]

NextXML ==
    \/ \E path \in Paths \ {<<Sep>>} : DoCreateFileSync(path)
    \/ \E path \in Paths \ {<<Sep>>} : DoMkdirSync(path)
    \/ \E target \in Paths, link \in Paths : DoLinkSync(target, link)
    \/ \E oldPath \in Paths, newPath \in Paths : DoRenameSync(oldPath, newPath)

SpecXML == InitXML /\ [][NextXML]_vars

\* the node of a path has a single link: its paths attribute holds the path
\* alone
SingleLink(ch, path) ==
    /\ XMLFS_get(ch, path) # 0
    /\ ch[XMLFS_get(ch, path)].paths = <<path>>

\* C38: after renameSync(oldPath, newPath) of an existing path with a single
\* link, to a free path in an existing directory, the node is still a child
\* of the root: statSync(newPath) succeeds, statSync(oldPath) fails ENOENT,
\* the parent's listing holds the new name and not the old one, and the
\* node's nlink equals the number of its paths
C38_RenameKeepsTheNode ==
    [][(/\ last'.op = "renameSync"
        /\ last'.path # <<Sep>>
        /\ SingleLink(children, last'.path)
        /\ XMLFS_get(children, last'.newPath) = 0
        /\ XMLFS_get(children, dirname(last'.newPath)) # 0
        /\ XMLFS_get(children, dirname(last'.newPath)) # XMLFS_get(children, last'.path))
       => /\ last'.err = "none"
          /\ Len(children') = Len(children)
          /\ XMLFS_statSync(children', last'.newPath).err = "none"
          /\ XMLFS_statSync(children', last'.path).err = "ENOENT"
          /\ indexOf(XMLFS_readdirSync(children', dirname(last'.newPath)),
                     basename(last'.newPath)) # 0
          /\ indexOf(XMLFS_readdirSync(children', dirname(last'.path)),
                     basename(last'.path)) = 0
          /\ XMLFS_statSync(children', last'.newPath).nlink
                 = Len(children'[XMLFS_get(children', last'.newPath)].paths)]_vars

\* ---------------------------------------------------- IndexedDBRWTransaction
\* a call of put or remove is [op, key, request, promise]: request is the
\* IDBRequest's state ("none" when the store method threw), promise is the
\* state of the promise the call returned
Inos == {1, 2}

\* the executor of put and of remove up to the end of the try block: the
\* store method throws and the catch rejects, or the request is made and the
\* handlers are set
Requested(op, key, throws) ==
    IF throws THEN [op |-> op, key |-> key, request |-> "none", promise |-> "rejected"]
    ELSE [op |-> op, key |-> key, request |-> "pending", promise |-> "pending"]

\* req.onsuccess as put sets it, resolve(true), and as remove sets it, a
\* function that returns resolve and does not call it
onsuccess(c) ==
    IF c.op = "put" THEN [c EXCEPT !.request = "success", !.promise = "resolved"]
    ELSE [c EXCEPT !.request = "success"]

\* req.onerror of put and of remove: reject(new ApiError(EIO))
onerror(c) == [c EXCEPT !.request = "error", !.promise = "rejected"]

InitIDB ==
    /\ heap = <<>>
    /\ sinks = <<>>
    /\ _handles = <<>>
    /\ index = <<>>
    /\ nops = 0
    /\ storage = <<>>
    /\ calls = <<>>
    /\ children = <<>>
    /\ last = [op |-> "init"]

DoPut(key, overwrite, throws) ==
    /\ Len(calls) < MaxCallers
    /\ calls' = Append(calls, Requested("put", key, throws))
    /\ last' = [op |-> "put", key |-> key, overwrite |-> overwrite]
    /\ UNCHANGED <<heap, sinks, _handles, index, nops, storage, children>>

DoRemove(key, throws) ==
    /\ Len(calls) < MaxCallers
    /\ calls' = Append(calls, Requested("remove", key, throws))
    /\ last' = [op |-> "remove", key |-> key]
    /\ UNCHANGED <<heap, sinks, _handles, index, nops, storage, children>>

\* the database completes the request of call i and fires its success event
DoSuccess(i) ==
    /\ i <= Len(calls)
    /\ calls[i].request = "pending"
    /\ calls' = [calls EXCEPT ![i] = onsuccess(calls[i])]
    /\ last' = [op |-> "success", call |-> i]
    /\ UNCHANGED <<heap, sinks, _handles, index, nops, storage, children>>

\* the database fails the request of call i and fires its error event
DoError(i) ==
    /\ i <= Len(calls)
    /\ calls[i].request = "pending"
    /\ calls' = [calls EXCEPT ![i] = onerror(calls[i])]
    /\ last' = [op |-> "error", call |-> i]
    /\ UNCHANGED <<heap, sinks, _handles, index, nops, storage, children>>

NextIDB ==
    \/ \E key \in Inos, overwrite \in BOOLEAN, throws \in BOOLEAN : DoPut(key, overwrite, throws)
    \/ \E key \in Inos, throws \in BOOLEAN : DoRemove(key, throws)
    \/ \E i \in 1..MaxCallers : DoSuccess(i)
    \/ \E i \in 1..MaxCallers : DoError(i)

SpecIDB == InitIDB /\ [][NextIDB]_vars

\* the database completes every request it was given: a pending request
\* gets its success or its error event
SpecIDBLive ==
    /\ SpecIDB
    /\ \A i \in 1..MaxCallers : WF_vars(DoSuccess(i) \/ DoError(i))

\* call i is a remove whose request is in one of the states
RemoveIs(i, states) ==
    i <= Len(calls) /\ calls[i].op = "remove" /\ calls[i].request \in states

\* the promise of call i is in one of the states
PromiseIs(i, states) == i <= Len(calls) /\ calls[i].promise \in states

\* C39: the promise returned by remove(key) is eventually settled: once the
\* delete request has succeeded the promise is resolved, once it has failed
\* the promise is rejected, and it does not stay pending after the request
\* has completed
C39_RemoveSettles ==
    \A i \in 1..MaxCallers :
        /\ RemoveIs(i, {"pending", "success", "error", "none"})
               ~> PromiseIs(i, {"resolved", "rejected"})
        /\ RemoveIs(i, {"success"}) ~> PromiseIs(i, {"resolved"})
        /\ RemoveIs(i, {"error"}) ~> PromiseIs(i, {"rejected"})

====
